---- MODULE Spec2Model ----
(***************************************************************************)
(* A model of assetguy's GIF timeline arithmetic (assets/gif.py), delay    *)
(* rescaling, and the split / trim / optimize pipelines                    *)
(* (operations/optimize.py, cli.py).                                       *)
(*                                                                         *)
(* Frame indices are 0-based as in the source.  Delays are integers in     *)
(* centiseconds.  Times are Python floats (seconds) in the source; here a  *)
(* time is an exact integer number of ticks, TicksPerCs ticks to the       *)
(* centisecond, so that a time can fall strictly inside a frame.  Two      *)
(* times that are equal as real numbers compare equal here; in the source  *)
(* that is exact whenever both come from the same accumulation of          *)
(* delay / 100.0 (cumulative_times against frames_to_time_points, or one   *)
(* split boundary used as the end of a segment and the start of the next), *)
(* while a time computed as sum(delays[:k]) / 100.0 can differ from the    *)
(* accumulated one in the last bit.  The rounding of                       *)
(* scale_delays_proportionally is modelled with that error (see PyRound).  *)
(*                                                                         *)
(* The parsers of the segmentation planner work on input strings, modelled *)
(* as sequences of characters; a typed time is a decimal literal of at     *)
(* most two decimals, read exactly.                                        *)
(***************************************************************************)
EXTENDS Integers, Sequences, FiniteSets, TLC

\* ---- bounds of the model ----
MaxFrames == 3
MaxDelay == 2
TicksPerCs == 2
MaxSplitPoints == 2
MaxTrimRanges == 2
MaxSegments == 2
MaxFrameNumbers == 2
MaxProbeLines == 3

\* Python's None as a function result (a result is otherwise a tuple).
None == << >>
\* Python's None passed as end_time ("to the end of the GIF").
NoEndTime == -1
\* An output whose command carried no "-set delay" option.
NoDelaySet == -1

\* The timeline of the documented scenario: 5 frames of 10 cs.
ScenarioDelays == <<10, 10, 10, 10, 10>>

VARIABLES
    delays,        \* info['delays']: the per-frame delays of the inspected GIF
    call,          \* the timeline call of this run: [op, a, b, result, returned]
    rescale,       \* the scale_delays_proportionally call of this run:
                   \* [delays, target_fps, fperr, result, returned]
    op,            \* the operation of this run: "split", "trim", "optimize" ("none": no pipeline)
    pc,            \* position of the run: "start", "loop", "coalesce", "extract",
                   \* "transform", "returned", "failed" (error exit), "interrupted"
    valid_points,  \* split_gif: the sorted boundary list
    ntrim,         \* cli: len(trim_ranges)
    is_frame,      \* cli: is_frame_based_trim
    idx,           \* the loop index i of the current segment / range (0-based)
    frame_ranges,  \* per job: the (start_frame, end_frame) resolved for it, None before
    temps,         \* temporary files that exist: <<job, "coalesce" | "extract" | "optimize">>
    outputs,       \* per output path: "absent", "partial" or "complete"
    output_files,  \* output paths collected so far (the list returned / reported)
    job_state,     \* per job: "Pending", "Coalesced", "Extracted", "Committed",
                   \* "Failed", "Skipped", "Interrupted"
    fps,           \* the fps argument of the run (0: None, no FPS adjustment)
    fps_mode,      \* the fps_mode argument: "normalize" or "preserve"
    split_points,  \* split_gif: its split_points argument, until valid_points is built
    current_range, \* cli: the trim range of the current iteration, None outside a job
    set_delay,     \* per output path: the value of "-set delay" in the command that
                   \* wrote it (NoDelaySet: the option was not given)
    plan,          \* the parser call of this run: [fn, marker, segs, text, result,
                   \* returned]; text is the input string, marker and segs the
                   \* pieces it was typed from
    trim_jobs,     \* cli: the trim jobs dispatched so far, [number, range] each
    cli,           \* the command of this run (cli.py): its options, the answers
                   \* the user gives at its prompts, its position, what it has
                   \* reported and which pipeline function it has called
    probe          \* get_info: [lines, read, info]: the lines of the identify
                   \* output (a line is its whitespace-separated fields), whether
                   \* get_info has run on them, and what it returned

timeline_vars == <<delays, call>>
pipeline_vars == <<op, pc, valid_points, ntrim, is_frame, idx, frame_ranges, temps,
                   outputs, output_files, job_state, fps, fps_mode, split_points,
                   current_range, set_delay>>
planner_vars == <<plan, trim_jobs>>
command_vars == <<cli, probe>>
vars == <<delays, call, rescale, pipeline_vars, planner_vars, command_vars>>

\* ------------------------------------------------------------------------
\* helpers standing for Python built-ins

RECURSIVE SumSeq(_)
SumSeq(s) == IF s = << >> THEN 0 ELSE Head(s) + SumSeq(Tail(s))

\* s[:k] of a Python list
Prefix(s, k) == SubSeq(s, 1, k)

SetMin(S) == CHOOSE x \in S : \A y \in S : x <= y

IntMax(a, b) == IF a >= b THEN a ELSE b

AllPositive(d) == \A i \in 1..Len(d) : d[i] >= 1

SeqRange(s) == {s[k] : k \in 1..Len(s)}

\* sorted(list(set(...)))
RECURSIVE SortedSeq(_)
SortedSeq(S) ==
    IF S = {} THEN << >>
    ELSE LET m == SetMin(S) IN <<m>> \o SortedSeq(S \ {m})

\* ------------------------------------------------------------------------
\* GifAsset.get_info: the fields of info the timeline functions read

info_frames(d) == Len(d)

\* info['duration'] = sum(delays) / 100.0, in ticks
info_duration(d) == SumSeq(d) * TicksPerCs

\* ------------------------------------------------------------------------
\* Idle values of the parts of the state a specification does not use

NoCall == [op |-> "none", a |-> 0, b |-> 0, result |-> None, returned |-> FALSE]

NoRescale == [delays |-> << >>, target_fps |-> 0, fperr |-> << >>,
              result |-> << >>, returned |-> FALSE]

NoPlan == [fn |-> "none", marker |-> << >>, segs |-> << >>, text |-> << >>,
           result |-> [kind |-> "None"], returned |-> FALSE]

NoPlanner ==
    /\ plan = NoPlan
    /\ trim_jobs = << >>

NoCli == [command |-> "none"]

\* a field of the identify output that int() does not accept
NotInt == -1

\* what get_info returns: the dictionary, or None (ok = FALSE)
InfoNone == [ok |-> FALSE, width |-> 0, height |-> 0, colors |-> 0, frames |-> 0,
             delays |-> << >>]
Info(width, height, colors, frame_count, ds) ==
    [ok |-> TRUE, width |-> width, height |-> height, colors |-> colors,
     frames |-> frame_count, delays |-> ds]

NoProbe == [lines |-> << >>, read |-> FALSE, info |-> InfoNone]

NoCommand ==
    /\ cli = NoCli
    /\ probe = NoProbe

NoPipeline ==
    /\ op = "none"
    /\ pc = "returned"
    /\ valid_points = << >>
    /\ ntrim = 0
    /\ is_frame = FALSE
    /\ idx = 0
    /\ frame_ranges = << >>
    /\ temps = {}
    /\ outputs = << >>
    /\ output_files = << >>
    /\ job_state = << >>
    /\ fps = 0
    /\ fps_mode = "normalize"
    /\ split_points = << >>
    /\ current_range = None
    /\ set_delay = << >>

\* ------------------------------------------------------------------------
\* GifAsset.time_range_to_frames

\* cumulative_times[i] (1-based here): the time at which frame i-1 ends
cumulative_times(d) == [i \in 1..Len(d) |-> SumSeq(Prefix(d, i)) * TicksPerCs]

\* first loop: start_frame = first i with cum_time > start_time, else 0
find_start_frame(cum, start_time) ==
    LET hits == {i \in 1..Len(cum) : cum[i] > start_time}
    IN  IF hits = {} THEN 0 ELSE SetMin(hits) - 1

\* faulty variant: the comparison of the second loop made non-strict
find_end_frame_nonstrict(cum, end_time) ==
    LET hits == {i \in 1..(Len(cum) - 1) : cum[i] >= end_time}
    IN  IF hits = {} THEN Len(cum) - 1 ELSE IntMax(0, SetMin(hits) - 1)

\* faulty variant: the second loop without its backstep (end_frame = i)
find_end_frame_nobackstep(cum, end_time) ==
    LET hits == {i \in 1..(Len(cum) - 1) : cum[i] > end_time}
    IN  IF hits = {} THEN Len(cum) - 1 ELSE SetMin(hits)

\* second loop: at 0-based iteration i >= 1, prev_time is cumulative_times of
\* frame i-1; the loop breaks at the first such i with prev_time > end_time and
\* sets end_frame = max(0, i - 1); without a break end_frame = len(delays) - 1.
\* (At iteration 0 prev_time is 0.0, never above a valid end_time.)
find_end_frame(cum, end_time) ==
    LET hits == {i \in 1..(Len(cum) - 1) : cum[i] > end_time}
    IN  IF hits = {} THEN Len(cum) - 1 ELSE IntMax(0, SetMin(hits) - 1)

\* faulty variant: an end_time beyond total_duration is not clamped
time_range_to_frames_noclamp(d, start_time0, end_time0) ==
    LET total_duration == info_duration(d)
        start_time == IF start_time0 < 0 THEN 0 ELSE start_time0
        end_time == IF end_time0 = NoEndTime THEN total_duration ELSE end_time0
        cum == cumulative_times(d)
        start_frame == find_start_frame(cum, start_time)
        end_frame == find_end_frame(cum, end_time)
    IN  IF Len(d) = 0 THEN None
        ELSE IF start_time >= end_time THEN None
        ELSE IF start_frame > end_frame THEN None
        ELSE <<start_frame, end_frame>>

time_range_to_frames(d, start_time0, end_time0) ==
    LET total_duration == info_duration(d)
        start_time == IF start_time0 < 0 THEN 0 ELSE start_time0
        end_time == IF end_time0 = NoEndTime \/ end_time0 > total_duration
                    THEN total_duration ELSE end_time0
        cum == cumulative_times(d)
        start_frame == find_start_frame(cum, start_time)
        end_frame == find_end_frame(cum, end_time)
    IN  IF Len(d) = 0 THEN None
        ELSE IF start_time >= end_time THEN None
        ELSE IF start_frame > end_frame THEN None
        ELSE <<start_frame, end_frame>>

\* ------------------------------------------------------------------------
\* GifAsset.frame_range_to_time

\* faulty variant: end_time taken as the sum of the delays before end_frame
frame_range_to_time_exclusive(d, start_frame, end_frame) ==
    LET total_frames == info_frames(d)
    IN  IF Len(d) = 0 \/ total_frames = 0 THEN None
        ELSE IF start_frame < 0 \/ end_frame >= total_frames \/ start_frame > end_frame
        THEN None
        ELSE <<SumSeq(Prefix(d, start_frame)) * TicksPerCs,
               SumSeq(Prefix(d, end_frame)) * TicksPerCs>>

\* faulty variant: a range whose start lies after its end is not rejected
frame_range_to_time_unordered(d, start_frame, end_frame) ==
    LET total_frames == info_frames(d)
    IN  IF Len(d) = 0 \/ total_frames = 0 THEN None
        ELSE IF start_frame < 0 \/ end_frame >= total_frames THEN None
        ELSE <<SumSeq(Prefix(d, start_frame)) * TicksPerCs,
               SumSeq(Prefix(d, end_frame + 1)) * TicksPerCs>>

frame_range_to_time(d, start_frame, end_frame) ==
    LET total_frames == info_frames(d)
    IN  IF Len(d) = 0 \/ total_frames = 0 THEN None
        ELSE IF start_frame < 0 \/ end_frame >= total_frames \/ start_frame > end_frame
        THEN None
        ELSE <<SumSeq(Prefix(d, start_frame)) * TicksPerCs,
               SumSeq(Prefix(d, end_frame + 1)) * TicksPerCs>>

\* ------------------------------------------------------------------------
\* GifAsset.frames_to_time_points

\* faulty variant: the running sum taken after each frame's own delay
frame_start_times_after(d) == [k \in 1..Len(d) |-> SumSeq(Prefix(d, k)) * TicksPerCs]

\* frame_start_times: [0.0] followed by the running sum of delays[:-1]
frame_start_times(d) == [k \in 1..Len(d) |-> SumSeq(Prefix(d, k - 1)) * TicksPerCs]

RECURSIVE frames_to_time_points(_, _)
frames_to_time_points(d, frame_numbers) ==
    IF Len(d) = 0 \/ info_frames(d) = 0 \/ frame_numbers = << >> THEN << >>
    ELSE LET frame_num == Head(frame_numbers)
             rest == frames_to_time_points(d, Tail(frame_numbers))
         IN  IF 0 <= frame_num /\ frame_num < Len(frame_start_times(d))
             THEN <<frame_start_times(d)[frame_num + 1]>> \o rest
             ELSE rest

\* ------------------------------------------------------------------------
\* GifAsset.scale_delays_proportionally
\*
\* The source computes delay / scale_factor in binary floating point through
\* three rounded divisions (100 / target_fps, sum / len, avg / target_delay).
\* The exact quotient is q = num / den with num = delay * 100 * len(delays) and
\* den = target_fps * sum(delays).  The floating-point error is far smaller
\* than the distance of q to a half-integer unless q is exactly a half-integer;
\* there the computed value may land on either side, which round() then
\* resolves away from the exact tie.  err is the sign of that error at a tie
\* (0: the computed value is the exact tie, rounded half to even).

IsTie(num, den) == 2 * (num % den) = den

\* faulty variant: int() truncation in place of round()
PyTrunc(num, den, err) == num \div den

\* Python 3 round() of the computed value of num / den (num >= 0, den > 0)
PyRound(num, den, err) ==
    LET fl == num \div den
        r2 == 2 * (num % den)
    IN  IF r2 < den THEN fl
        ELSE IF r2 > den THEN fl + 1
        ELSE IF err < 0 THEN fl
        ELSE IF err > 0 THEN fl + 1
        ELSE IF fl % 2 = 0 THEN fl ELSE fl + 1

QuotNum(d, i) == d[i] * 100 * Len(d)
QuotDen(d, target_fps) == target_fps * SumSeq(d)

\* faulty variant: the floor of 1 centisecond left out
scale_delays_nofloor(d, target_fps, fperr) ==
    IF Len(d) = 0 \/ target_fps <= 0 THEN d
    ELSE IF SumSeq(d) = 0 THEN d
    ELSE [i \in 1..Len(d) |->
             PyRound(QuotNum(d, i), QuotDen(d, target_fps), fperr[i])]

\* faulty variant: every delay replaced by the uniform target delay
scale_delays_uniform(d, target_fps, fperr) ==
    IF Len(d) = 0 \/ target_fps <= 0 THEN d
    ELSE IF SumSeq(d) = 0 THEN d
    ELSE [i \in 1..Len(d) |-> IntMax(1, PyRound(100, target_fps, 0))]

scale_delays_proportionally(d, target_fps, fperr) ==
    IF Len(d) = 0 \/ target_fps <= 0 THEN d
    ELSE IF SumSeq(d) = 0 THEN d
    ELSE [i \in 1..Len(d) |->
             IntMax(1, PyRound(QuotNum(d, i), QuotDen(d, target_fps), fperr[i]))]

\* ------------------------------------------------------------------------
\* The rescaling specification: scale_delays_proportionally is applied to an
\* arbitrary delay list and target FPS.

\* the documented rescaling scenario
RescaleScenarioDelays == <<10, 20, 10>>

RescaleInputs ==
    (UNION {[1..n -> 0..MaxDelay] : n \in 0..MaxFrames}) \cup {RescaleScenarioDelays}

\* target FPS values: not positive, slow, typical, and faster than 1 frame / cs
TargetFpsValues == {-1, 0, 1, 10, 60, 250}

\* the floating-point error signs: irrelevant away from exact ties; at a tie
\* the sign is the same for equal delays (the same computation), and for the
\* documented scenario it is known: 40 / 3 = 13.333333333333334,
\* 13.333333333333334 / 10.0 = 1.3333333333333335 and
\* 10 / 1.3333333333333335 = 7.499999999999999, below the tie
FpErrors(d, target_fps) ==
    {e \in [1..Len(d) -> {-1, 0, 1}] :
        /\ \A i \in 1..Len(d) :
              (target_fps <= 0 \/ SumSeq(d) = 0
                 \/ ~IsTie(QuotNum(d, i), QuotDen(d, target_fps))) => e[i] = 0
        /\ \A i, j \in 1..Len(d) : d[i] = d[j] => e[i] = e[j]
        /\ (d = RescaleScenarioDelays /\ target_fps = 10) =>
              \A i \in 1..Len(d) : d[i] = 10 => e[i] = -1}

RescaleInit ==
    /\ delays = << >>
    /\ call = NoCall
    /\ NoPipeline
    /\ NoPlanner
    /\ NoCommand
    /\ \E d \in RescaleInputs, f \in TargetFpsValues :
         \E e \in FpErrors(d, f) :
            rescale = [delays |-> d, target_fps |-> f, fperr |-> e,
                       result |-> << >>, returned |-> FALSE]

CallScaleDelays ==
    /\ ~rescale.returned
    /\ rescale # NoRescale
    /\ rescale' = [rescale EXCEPT
                     !.result = scale_delays_proportionally(rescale.delays,
                                    rescale.target_fps, rescale.fperr),
                     !.returned = TRUE]
    /\ UNCHANGED <<delays, call, pipeline_vars, planner_vars, command_vars>>

RescaleNext == CallScaleDelays

SpecRescale == RescaleInit /\ [][RescaleNext]_vars

\* ------------------------------------------------------------------------
\* The timeline specification: a GIF is inspected, then the conversion
\* functions are called with arbitrary arguments.

\* get_info keeps whatever delays the probe reports, a delay of 0 included.
Timelines == (UNION {[1..n -> 0..MaxDelay] : n \in 1..MaxFrames}) \cup {ScenarioDelays}

TimeArgs(d) == (-1)..(info_duration(d) + 1)
FrameArgs(d) == (-1)..Len(d)

\* the frame_numbers lists: indices in range and out of range, in any order
FrameNumberLists(d) == UNION {[1..n -> FrameArgs(d)] : n \in 0..MaxFrameNumbers}

\* The arguments of the call are drawn when the run starts; returned tells
\* whether the function has been applied to them yet.
TimelineCalls(d) ==
    {[op |-> "time_range_to_frames", a |-> s, b |-> e, result |-> None, returned |-> FALSE] :
        s \in TimeArgs(d), e \in TimeArgs(d)}
    \cup
    {[op |-> "frame_range_to_time", a |-> f0, b |-> f1, result |-> None, returned |-> FALSE] :
        f0 \in FrameArgs(d), f1 \in FrameArgs(d)}
    \cup
    {[op |-> "frames_to_time_points", a |-> fs, b |-> 0, result |-> None, returned |-> FALSE] :
        fs \in FrameNumberLists(d)}

TimelineInit ==
    /\ delays \in Timelines
    /\ call \in TimelineCalls(delays)
    /\ rescale = NoRescale
    /\ NoPipeline
    /\ NoPlanner
    /\ NoCommand

CallTimeRangeToFrames ==
    /\ call.op = "time_range_to_frames"
    /\ ~call.returned
    /\ call' = [call EXCEPT !.result = time_range_to_frames(delays, call.a, call.b),
                            !.returned = TRUE]
    /\ UNCHANGED <<delays, rescale, pipeline_vars, planner_vars, command_vars>>

CallFrameRangeToTime ==
    /\ call.op = "frame_range_to_time"
    /\ ~call.returned
    /\ call' = [call EXCEPT !.result = frame_range_to_time(delays, call.a, call.b),
                            !.returned = TRUE]
    /\ UNCHANGED <<delays, rescale, pipeline_vars, planner_vars, command_vars>>

CallFramesToTimePoints ==
    /\ call.op = "frames_to_time_points"
    /\ ~call.returned
    /\ call' = [call EXCEPT !.result = frames_to_time_points(delays, call.a),
                            !.returned = TRUE]
    /\ UNCHANGED <<delays, rescale, pipeline_vars, planner_vars, command_vars>>

\* frame -> time -> frame: the result of frame_range_to_time is fed back to
\* time_range_to_frames; a and b keep the original frame range.
CallRoundTrip ==
    /\ call.op = "frame_range_to_time"
    /\ call.returned
    /\ call.result # None
    /\ call' = [call EXCEPT !.op = "round_trip",
                            !.result = time_range_to_frames(delays, call.result[1], call.result[2])]
    /\ UNCHANGED <<delays, rescale, pipeline_vars, planner_vars, command_vars>>

TimelineNext ==
    \/ CallTimeRangeToFrames
    \/ CallFrameRangeToTime
    \/ CallFramesToTimePoints
    \/ CallRoundTrip

SpecTimeline == TimelineInit /\ [][TimelineNext]_vars

\* ------------------------------------------------------------------------
\* The inspection specification: get_info reads the output of
\* "identify -format '%w %h %k %T\n'", then the timeline it built is handed
\* to the conversion functions.

\* result.stdout.strip().split('\n'): blank lines at both ends are gone
RECURSIVE lstrip_lines(_)
lstrip_lines(lines) ==
    IF lines = << >> THEN << >>
    ELSE IF Head(lines) = << >> THEN lstrip_lines(Tail(lines))
    ELSE lines

RECURSIVE rstrip_lines(_)
rstrip_lines(lines) ==
    IF lines = << >> THEN << >>
    ELSE IF lines[Len(lines)] = << >> THEN rstrip_lines(SubSeq(lines, 1, Len(lines) - 1))
    ELSE lines

strip_lines(lines) == rstrip_lines(lstrip_lines(lines))

\* line.strip() is not empty
NonBlankLine(line) == line # << >>

\* the integers int(parts[k - 1]) collected from the lines that have the
\* field; a line without it or with an unparseable one adds nothing
RECURSIVE parsed_fields(_, _)
parsed_fields(lines, k) ==
    IF lines = << >> THEN << >>
    ELSE LET parts == Head(lines)
             rest == parsed_fields(Tail(lines), k)
         IN  IF Len(parts) >= k /\ parts[k] # NotInt THEN <<parts[k]>> \o rest
             ELSE rest

RECURSIVE max_of(_)
max_of(values) ==
    IF Len(values) = 1 THEN values[1]
    ELSE IntMax(Head(values), max_of(Tail(values)))

\* the delays padded with the last known delay (10 if there is none) or
\* truncated to the frame count; no delay is changed
repair_delays(ds, frame_count) ==
    IF Len(ds) < frame_count
    THEN LET last_delay == IF ds # << >> THEN ds[Len(ds)] ELSE 10
         IN  ds \o [k \in 1..(frame_count - Len(ds)) |-> last_delay]
    ELSE SubSeq(ds, 1, frame_count)

\* GifAsset.get_info on the text the probe printed
get_info(stdout_lines) ==
    LET lines == strip_lines(stdout_lines)
    IN  IF lines = << >> THEN InfoNone
        ELSE
        LET first_line == lines[1]
            frame_count == Len(SelectSeq(lines, NonBlankLine))
            all_colors == parsed_fields(lines, 3)
            ds == parsed_fields(lines, 4)
        IN  IF Len(first_line) < 2 THEN InfoNone
            ELSE IF first_line[1] = NotInt \/ first_line[2] = NotInt THEN InfoNone
            ELSE IF all_colors = << >> /\ Len(first_line) >= 3 /\ first_line[3] = NotInt
                 THEN InfoNone
            ELSE Info(first_line[1], first_line[2],
                      IF all_colors # << >> THEN max_of(all_colors)
                      ELSE IF Len(first_line) >= 3 THEN first_line[3] ELSE 0,
                      frame_count,
                      repair_delays(ds, frame_count))

\* the lines a probe can print: blank, cut short, with a field that is not a
\* number, or complete with any delay from 0 up
ProbeLines ==
    {<< >>, <<4>>, <<4, 3, 8>>, <<NotInt, 3, 8, 1>>, <<4, 3, NotInt, 1>>,
     <<4, 3, 8, NotInt>>}
    \cup {<<4, 3, 8, t>> : t \in 0..MaxDelay}

ProbeOutputs == UNION {[1..n -> ProbeLines] : n \in 1..MaxProbeLines}

\* what is asked of a timeline once it is built: its whole extent
InspectCalls(d) ==
    {[op |-> "time_range_to_frames", a |-> 0, b |-> info_duration(d),
      result |-> None, returned |-> FALSE],
     [op |-> "frame_range_to_time", a |-> 0, b |-> Len(d) - 1,
      result |-> None, returned |-> FALSE]}

InspectInit ==
    /\ probe \in {[lines |-> lines, read |-> FALSE, info |-> InfoNone] :
                     lines \in ProbeOutputs}
    /\ cli = NoCli
    /\ delays = << >>
    /\ call = NoCall
    /\ rescale = NoRescale
    /\ NoPipeline
    /\ NoPlanner

\* the first get_info of an asset; every method takes its delays from it
GetInfo ==
    /\ ~probe.read
    /\ LET info == get_info(probe.lines)
       IN  /\ probe' = [probe EXCEPT !.read = TRUE, !.info = info]
           /\ delays' = info.delays
           /\ call' \in (IF info.ok THEN InspectCalls(info.delays) ELSE {NoCall})
    /\ UNCHANGED <<rescale, pipeline_vars, planner_vars, cli>>

InspectNext ==
    \/ GetInfo
    \/ CallTimeRangeToFrames
    \/ CallFrameRangeToTime

SpecInspect == InspectInit /\ [][InspectNext]_vars

\* ------------------------------------------------------------------------
\* The pipelines: split_gif, trim_gif (called from the cli loop over
\* trim_ranges) and optimize_gif.  Every run(cmd) of an external process either
\* succeeds, raises CalledProcessError / OSError (an Exception), or is cut short
\* by the user's interrupt (KeyboardInterrupt, which is not an Exception).

\* the variables no step of a pipeline changes
other_vars == <<delays, call, rescale, fps, fps_mode, plan, trim_jobs, command_vars>>

\* sorted(...) of a list
RECURSIVE InsertSorted(_, _)
InsertSorted(x, s) ==
    IF s = << >> THEN <<x>>
    ELSE IF x <= Head(s) THEN <<x>> \o s
    ELSE <<Head(s)>> \o InsertSorted(x, Tail(s))

RECURSIVE SortedList(_)
SortedList(s) == IF s = << >> THEN s ELSE InsertSorted(Head(s), SortedList(Tail(s)))

\* faulty variant: the boundary list sorted without set(), duplicates kept
build_valid_points_nodedup(d, points) ==
    LET total_duration == info_duration(d)
        interior(p) == 0 < p /\ p < total_duration
    IN  SortedList(<<0>> \o SelectSeq(points, interior) \o <<total_duration>>)

\* faulty variant: total_duration is not appended to the boundary list
build_valid_points_open(d, points) ==
    LET total_duration == info_duration(d)
    IN  SortedSeq({0} \cup {p \in SeqRange(points) : 0 < p /\ p < total_duration})

\* split_gif: valid_points = sorted(set([0.0] + interior points + [total_duration]))
build_valid_points(d, points) ==
    LET total_duration == info_duration(d)
    IN  SortedSeq({0}
                  \cup {p \in SeqRange(points) : 0 < p /\ p < total_duration}
                  \cup {total_duration})

\* faulty variant: the outputs numbered by the count of those produced so far
output_path_by_count(k) == Len(output_files) + 1

\* the output path of job i, known by its number: "<stem>_part{i+1}" in
\* split_gif, "<stem>_trim{i+1}" in the cli loop over several trim ranges (a
\* single trim writes the output path as given, here number 1)
output_path(k) == k + 1

\* the two files of tempfile.mkstemp for job k
JobTemps(k) == {<<k, "coalesce">>, <<k, "extract">>}

\* faulty variant: a frame range converted to a time range and back
trim_frame_range_via_time(d, frame_based, r) ==
    IF frame_based
    THEN LET t == frame_range_to_time(d, r[1], r[2])
         IN  IF t = None THEN None ELSE time_range_to_frames(d, t[1], t[2])
    ELSE time_range_to_frames(d, r[1], r[2])

\* trim_gif: the frame range from frame or time parameters; None stands for
\* the ValueError the function raises
trim_frame_range(d, frame_based, r) ==
    IF frame_based
    THEN IF r[1] < 0 \/ r[2] >= info_frames(d) \/ r[1] > r[2] THEN None ELSE r
    ELSE time_range_to_frames(d, r[1], r[2])

\* the documented split scenario: "2.5,3.5" on a 6-second asset
SplitScenarioDelays == <<200, 200, 200>>
SplitScenarioPoints == <<250 * TicksPerCs, 350 * TicksPerCs>>

\* what the callers pass as split_points: frame start times (what
\* frames_to_time_points gives for frame input, and typed times that fall on a
\* boundary), times strictly inside a frame (start + 1 tick), and
\* total_duration; time_range_to_frames tells times apart only by the frame
\* that contains them and by whether they lie on its start
SplitTimes(d) ==
    LET starts == SeqRange(frame_start_times(d))
    IN  starts \cup {t + 1 : t \in starts} \cup {info_duration(d)}
        \cup (IF d = SplitScenarioDelays THEN SeqRange(SplitScenarioPoints) ELSE {})

SplitPointInputs(d) ==
    UNION {[1..n -> SplitTimes(d)] : n \in 0..MaxSplitPoints}

ValidFrameRanges(d) ==
    {r \in (0..(Len(d) - 1)) \X (0..(Len(d) - 1)) : r[1] <= r[2]}

\* the time ranges parse_time_range accepts (0 <= start < end <= duration),
\* with the representative times of SplitTimes as end points
ValidTimeRanges(d) ==
    {r \in SplitTimes(d) \X SplitTimes(d) : r[1] < r[2]}

\* the pipelines are run on timelines of frames of the shortest and of the
\* longest delay, on the split scenario, and on a GIF whose only frame has
\* delay 0 (total_duration = 0)
PipelineTimelines ==
    {d \in Timelines : Len(d) <= MaxFrames /\ \A k \in 1..Len(d) : d[k] \in {1, MaxDelay}}
    \cup {SplitScenarioDelays, <<0>>}

\* the fps arguments of the runs: None, one whose 100 / fps is an integer and
\* one whose 100 / fps is not
PipelineFpsValues == {0, 10, 15}

PipelineInit ==
    /\ delays \in PipelineTimelines
    /\ call = NoCall
    /\ rescale = NoRescale
    /\ NoPlanner
    /\ NoCommand
    /\ op \in {"split", "trim", "optimize"}
    /\ fps \in PipelineFpsValues
    /\ fps_mode \in (IF fps = 0 THEN {"normalize"} ELSE {"normalize", "preserve"})
    /\ pc = "start"
    /\ valid_points = << >>
    /\ ntrim = 0
    /\ is_frame = FALSE
    /\ idx = 0
    /\ frame_ranges = << >>
    /\ temps = {}
    /\ outputs = << >>
    /\ output_files = << >>
    /\ job_state = << >>
    /\ split_points = << >>
    /\ current_range = None
    /\ set_delay = << >>

NewJobs(n) ==
    /\ job_state' = [k \in 0..(n - 1) |-> "Pending"]
    /\ frame_ranges' = [k \in 0..(n - 1) |-> None]
    /\ outputs' = [q \in 1..n |-> "absent"]
    /\ set_delay' = [q \in 1..n |-> NoDelaySet]

\* split_gif up to the segment loop
SplitStart ==
    /\ op = "split"
    /\ pc = "start"
    /\ \E points \in SplitPointInputs(delays) :
          LET vp == build_valid_points(delays, points)
          IN  IF Len(points) = 0
              THEN /\ pc' = "returned"
                   /\ UNCHANGED <<split_points, valid_points, job_state, frame_ranges,
                                  outputs, set_delay>>
              ELSE /\ split_points' = points
                   /\ valid_points' = vp
                   /\ IF Len(vp) < 2
                      THEN /\ pc' = "returned"
                           /\ UNCHANGED <<job_state, frame_ranges, outputs, set_delay>>
                      ELSE /\ pc' = "loop"
                           /\ NewJobs(Len(vp) - 1)
    /\ UNCHANGED <<other_vars, op, ntrim, is_frame, idx, temps, output_files,
                   current_range>>

\* one iteration of the segment loop up to the try block: the frame range of
\* the segment and its two temporary files
SplitNextSegment ==
    /\ op = "split"
    /\ pc = "loop"
    /\ idx < Len(valid_points) - 1
    /\ split_points' = << >>
    /\ LET start_time == valid_points[idx + 1]
           end_time == valid_points[idx + 2]
           frame_range == time_range_to_frames(delays, start_time, end_time)
       IN  IF frame_range = None
           THEN /\ job_state' = [job_state EXCEPT ![idx] = "Skipped"]
                /\ idx' = idx + 1
                /\ UNCHANGED <<pc, frame_ranges, temps>>
           ELSE /\ frame_ranges' = [frame_ranges EXCEPT ![idx] = frame_range]
                /\ temps' = temps \cup JobTemps(idx)
                /\ pc' = "coalesce"
                /\ UNCHANGED <<idx, job_state>>
    /\ UNCHANGED <<other_vars, op, valid_points, ntrim, is_frame, outputs, output_files,
                   current_range, set_delay>>

SplitReturn ==
    /\ op = "split"
    /\ pc = "loop"
    /\ idx >= Len(valid_points) - 1
    /\ pc' = "returned"
    /\ split_points' = << >>
    /\ UNCHANGED <<other_vars, op, valid_points, ntrim, is_frame, idx, frame_ranges,
                   temps, outputs, output_files, job_state,
                   current_range, set_delay>>

\* cli: the trim ranges are parsed (one or more, frame- or time-based)
TrimStart ==
    /\ op = "trim"
    /\ pc = "start"
    /\ \E n \in 1..MaxTrimRanges, f \in BOOLEAN :
          /\ f \/ ValidTimeRanges(delays) # {}
          /\ ntrim' = n
          /\ is_frame' = f
          /\ NewJobs(n)
    /\ pc' = "loop"
    /\ UNCHANGED <<other_vars, op, valid_points, idx, temps, output_files,
                   split_points, current_range>>

\* one iteration of the cli loop over trim_ranges: trim_gif up to its try block
TrimNextRange ==
    /\ op = "trim"
    /\ pc = "loop"
    /\ idx < ntrim
    /\ \E r \in (IF is_frame THEN ValidFrameRanges(delays) ELSE ValidTimeRanges(delays)) :
          LET frame_range == trim_frame_range(delays, is_frame, r)
          IN  IF frame_range = None
              THEN /\ job_state' = [job_state EXCEPT ![idx] = "Failed"]
                   /\ idx' = idx + 1
                   /\ UNCHANGED <<pc, frame_ranges, temps, current_range>>
              ELSE /\ current_range' = r
                   /\ frame_ranges' = [frame_ranges EXCEPT ![idx] = frame_range]
                   /\ temps' = temps \cup JobTemps(idx)
                   /\ pc' = "coalesce"
                   /\ UNCHANGED <<idx, job_state>>
    /\ UNCHANGED <<other_vars, op, valid_points, ntrim, is_frame, outputs, output_files,
                   split_points, set_delay>>

TrimReturn ==
    /\ op = "trim"
    /\ pc = "loop"
    /\ idx >= ntrim
    /\ pc' = "returned"
    /\ UNCHANGED <<other_vars, op, valid_points, ntrim, is_frame, idx, frame_ranges,
                   temps, outputs, output_files, job_state,
                   split_points, current_range, set_delay>>

\* optimize_gif up to its try block: one temporary file
OptimizeStart ==
    /\ op = "optimize"
    /\ pc = "start"
    /\ NewJobs(1)
    /\ temps' = {<<0, "optimize">>}
    /\ pc' = "transform"
    /\ UNCHANGED <<other_vars, op, valid_points, ntrim, is_frame, idx, output_files,
                   split_points, current_range>>

\* frame_range is a local of trim_gif, gone when the call returns or raises;
\* the ranges of the segments of one split_gif call are kept
AfterJob(ranges) ==
    IF op = "trim" THEN [ranges EXCEPT ![idx] = None] ELSE ranges

\* faulty variant: the except block leaves extract_file behind
SplitTrimExceptKeepsExtract ==
    /\ temps' = temps \ {<<idx, "coalesce">>}
    /\ job_state' = [job_state EXCEPT ![idx] = "Failed"]
    /\ idx' = idx + 1
    /\ pc' = "loop"
    /\ frame_ranges' = AfterJob(frame_ranges)
    /\ current_range' = None
    /\ UNCHANGED output_files

\* faulty variant: the except block of split_gif re-raises instead of continuing
SplitTrimExceptRaises ==
    /\ temps' = temps \ JobTemps(idx)
    /\ job_state' = [job_state EXCEPT ![idx] = "Failed"]
    /\ pc' = IF op = "split" THEN "failed" ELSE "loop"
    /\ idx' = IF op = "split" THEN idx ELSE idx + 1
    /\ frame_ranges' = AfterJob(frame_ranges)
    /\ current_range' = None
    /\ UNCHANGED output_files

\* faulty variant: the error is swallowed and the job goes on to its last step
SplitTrimExceptGoesOn ==
    /\ temps' = temps
    /\ job_state' = [job_state EXCEPT ![idx] = "Failed"]
    /\ idx' = idx
    /\ pc' = "transform"
    /\ frame_ranges' = frame_ranges
    /\ current_range' = current_range
    /\ UNCHANGED output_files

\* "except Exception" of split_gif (remove both files, continue), and of
\* trim_gif (remove both files, raise) with the cli loop's own
\* "except Exception" (warn, next range)
SplitTrimExcept ==
    /\ temps' = temps \ JobTemps(idx)
    /\ job_state' = [job_state EXCEPT ![idx] = "Failed"]
    /\ idx' = idx + 1
    /\ pc' = "loop"
    /\ frame_ranges' = AfterJob(frame_ranges)
    /\ current_range' = None
    /\ UNCHANGED output_files

\* KeyboardInterrupt passes every "except Exception" and reaches the cli's
\* "except KeyboardInterrupt", which exits
Interrupted ==
    /\ job_state' = [job_state EXCEPT ![idx] = "Interrupted"]
    /\ pc' = "interrupted"
    /\ UNCHANGED <<idx, temps, output_files, frame_ranges, current_range>>

\* Step 1: coalesce into coalesce_file
RunCoalesceOk ==
    /\ pc = "coalesce"
    /\ job_state' = [job_state EXCEPT ![idx] = "Coalesced"]
    /\ pc' = "extract"
    /\ UNCHANGED <<other_vars, op, valid_points, ntrim, is_frame, idx, frame_ranges,
                   temps, outputs, output_files,
                   split_points, current_range, set_delay>>

RunCoalesceFails ==
    /\ pc = "coalesce"
    /\ SplitTrimExcept
    /\ UNCHANGED <<other_vars, op, valid_points, ntrim, is_frame, outputs,
                   split_points, set_delay>>

RunCoalesceInterrupted ==
    /\ pc = "coalesce"
    /\ Interrupted
    /\ UNCHANGED <<other_vars, op, valid_points, ntrim, is_frame, outputs,
                   split_points, set_delay>>

\* Step 2: extract the frame range into extract_file
RunExtractOk ==
    /\ pc = "extract"
    /\ job_state' = [job_state EXCEPT ![idx] = "Extracted"]
    /\ pc' = "transform"
    /\ UNCHANGED <<other_vars, op, valid_points, ntrim, is_frame, idx, frame_ranges,
                   temps, outputs, output_files,
                   split_points, current_range, set_delay>>

RunExtractFails ==
    /\ pc = "extract"
    /\ SplitTrimExcept
    /\ UNCHANGED <<other_vars, op, valid_points, ntrim, is_frame, outputs,
                   split_points, set_delay>>

RunExtractInterrupted ==
    /\ pc = "extract"
    /\ Interrupted
    /\ UNCHANGED <<other_vars, op, valid_points, ntrim, is_frame, outputs,
                   split_points, set_delay>>

\* a process that does not finish may or may not have written its destination
WrittenBy(path, wrote) ==
    IF wrote THEN [outputs EXCEPT ![path] = "partial"] ELSE outputs

\* delays[start_frame:end_frame+1]
segment_delays(d, frame_range) == SubSeq(d, frame_range[1] + 1, frame_range[2] + 1)

\* normalize mode: delay = int(100 / fps)
normalize_delay(target_fps) == 100 \div target_fps

\* the value given to "-set delay" when fps is set: in preserve mode
\* int(sum(scaled_delays) / len(scaled_delays)) of the rescaled segment, the
\* uniform delay otherwise (and for an empty segment)
delay_option(seg, target_fps, mode, fperr) ==
    IF mode = "preserve" /\ seg # << >>
    THEN LET scaled_delays == scale_delays_proportionally(seg, target_fps, fperr)
         IN  SumSeq(scaled_delays) \div Len(scaled_delays)
    ELSE normalize_delay(target_fps)

\* "if fps:" - without an fps the command has no "-set delay"
DelayOptions(seg) ==
    IF fps = 0 THEN {NoDelaySet}
    ELSE {delay_option(seg, fps, fps_mode, e) : e \in FpErrors(seg, fps)}

\* Step 3: the optimization command, whose destination is output_path itself;
\* then both temporary files are removed and the path is collected
RunTransformOk ==
    /\ pc = "transform"
    /\ op \in {"split", "trim"}
    /\ outputs' = [outputs EXCEPT ![output_path(idx)] = "complete"]
    /\ \E delay \in DelayOptions(segment_delays(delays, frame_ranges[idx])) :
          set_delay' = [set_delay EXCEPT ![output_path(idx)] = delay]
    /\ temps' = temps \ JobTemps(idx)
    /\ output_files' = Append(output_files, output_path(idx))
    /\ job_state' = [job_state EXCEPT ![idx] = "Committed"]
    /\ idx' = idx + 1
    /\ pc' = "loop"
    /\ frame_ranges' = AfterJob(frame_ranges)
    /\ current_range' = None
    /\ UNCHANGED <<other_vars, op, valid_points, ntrim, is_frame, split_points>>

RunTransformFails ==
    /\ pc = "transform"
    /\ op \in {"split", "trim"}
    /\ \E wrote \in BOOLEAN : outputs' = WrittenBy(output_path(idx), wrote)
    /\ SplitTrimExcept
    /\ UNCHANGED <<other_vars, op, valid_points, ntrim, is_frame,
                   split_points, set_delay>>

RunTransformInterrupted ==
    /\ pc = "transform"
    /\ op \in {"split", "trim"}
    /\ \E wrote \in BOOLEAN : outputs' = WrittenBy(output_path(idx), wrote)
    /\ Interrupted
    /\ UNCHANGED <<other_vars, op, valid_points, ntrim, is_frame,
                   split_points, set_delay>>

\* optimize_gif: the command writes temp_file, which is then renamed to
\* output_path
RunOptimizeOk ==
    /\ pc = "transform"
    /\ op = "optimize"
    /\ temps' = temps \ {<<idx, "optimize">>}
    /\ outputs' = [outputs EXCEPT ![output_path(idx)] = "complete"]
    /\ \E delay \in DelayOptions(delays) :
          set_delay' = [set_delay EXCEPT ![output_path(idx)] = delay]
    /\ output_files' = Append(output_files, output_path(idx))
    /\ job_state' = [job_state EXCEPT ![idx] = "Committed"]
    /\ pc' = "returned"
    /\ UNCHANGED <<other_vars, op, valid_points, ntrim, is_frame, idx, frame_ranges,
                   split_points, current_range>>

\* optimize_gif's "except Exception" removes temp_file and raises; the cli
\* reports the error and exits
RunOptimizeFails ==
    /\ pc = "transform"
    /\ op = "optimize"
    /\ temps' = temps \ {<<idx, "optimize">>}
    /\ job_state' = [job_state EXCEPT ![idx] = "Failed"]
    /\ pc' = "failed"
    /\ UNCHANGED <<other_vars, op, valid_points, ntrim, is_frame, idx, frame_ranges,
                   outputs, output_files,
                   split_points, current_range, set_delay>>

RunOptimizeInterrupted ==
    /\ pc = "transform"
    /\ op = "optimize"
    /\ Interrupted
    /\ UNCHANGED <<other_vars, op, valid_points, ntrim, is_frame, outputs,
                   split_points, set_delay>>

PipelineNext ==
    \/ SplitStart
    \/ SplitNextSegment
    \/ SplitReturn
    \/ TrimStart
    \/ TrimNextRange
    \/ TrimReturn
    \/ OptimizeStart
    \/ RunCoalesceOk
    \/ RunCoalesceFails
    \/ RunCoalesceInterrupted
    \/ RunExtractOk
    \/ RunExtractFails
    \/ RunExtractInterrupted
    \/ RunTransformOk
    \/ RunTransformFails
    \/ RunTransformInterrupted
    \/ RunOptimizeOk
    \/ RunOptimizeFails
    \/ RunOptimizeInterrupted

SpecPipeline == PipelineInit /\ [][PipelineNext]_vars

\* ------------------------------------------------------------------------
\* The segmentation planner (operations/optimize.py, lines 15-237).  A str is
\* a sequence of one-character strings.

Digits == {"0", "1", "2", "3", "4", "5", "6", "7", "8", "9"}

DigitValue ==
    ("0" :> 0) @@ ("1" :> 1) @@ ("2" :> 2) @@ ("3" :> 3) @@ ("4" :> 4) @@
    ("5" :> 5) @@ ("6" :> 6) @@ ("7" :> 7) @@ ("8" :> 8) @@ ("9" :> 9)

\* c in s
Contains(s, c) == \E k \in 1..Len(s) : s[k] = c

\* s.startswith(prefix)
startswith(s, prefix) == Len(s) >= Len(prefix) /\ SubSeq(s, 1, Len(prefix)) = prefix

RECURSIVE lstrip(_)
lstrip(s) == IF s # << >> /\ Head(s) = " " THEN lstrip(Tail(s)) ELSE s

RECURSIVE rstrip(_)
rstrip(s) ==
    IF s # << >> /\ s[Len(s)] = " " THEN rstrip(SubSeq(s, 1, Len(s) - 1)) ELSE s

\* s.strip()
strip(s) == rstrip(lstrip(s))

\* s.split(sep, 1)[0] and s.split(sep, 1)[1] for a sep that occurs in s
RECURSIVE BeforeFirst(_, _)
BeforeFirst(s, sep) ==
    IF s = << >> \/ Head(s) = sep THEN << >> ELSE <<Head(s)>> \o BeforeFirst(Tail(s), sep)

RECURSIVE AfterFirst(_, _)
AfterFirst(s, sep) ==
    IF s = << >> THEN << >>
    ELSE IF Head(s) = sep THEN Tail(s) ELSE AfterFirst(Tail(s), sep)

\* s.split(sep): always at least one part
RECURSIVE split(_, _)
split(s, sep) ==
    IF ~Contains(s, sep) THEN <<s>>
    ELSE <<BeforeFirst(s, sep)>> \o split(AfterFirst(s, sep), sep)

\* [p.strip() for p in parts if p.strip()]
RECURSIVE StrippedNonEmpty(_)
StrippedNonEmpty(parts) ==
    IF parts = << >> THEN << >>
    ELSE IF strip(Head(parts)) = << >> THEN StrippedNonEmpty(Tail(parts))
    ELSE <<strip(Head(parts))>> \o StrippedNonEmpty(Tail(parts))

IsDigits(s) == s # << >> /\ \A k \in 1..Len(s) : s[k] \in Digits

RECURSIVE DecimalValue(_)
DecimalValue(s) ==
    IF s = << >> THEN 0
    ELSE DecimalValue(SubSeq(s, 1, Len(s) - 1)) * 10 + DigitValue[s[Len(s)]]

RECURSIVE PowerOfTen(_)
PowerOfTen(n) == IF n = 0 THEN 1 ELSE 10 * PowerOfTen(n - 1)

HasSign(t) == t # << >> /\ Head(t) \in {"-", "+"}
Unsigned(t) == IF HasSign(t) THEN Tail(t) ELSE t
Signed(t, v) == IF t # << >> /\ Head(t) = "-" THEN 0 - v ELSE v

\* int(x) succeeds (no ValueError): optional blanks, optional sign, digits
IsIntLiteral(x) == IsDigits(Unsigned(strip(x)))
IntValue(x) == Signed(strip(x), DecimalValue(Unsigned(strip(x))))

\* float('nan'): a value for which every comparison is False
NaN == -1000000
IsNaNLiteral(x) == Unsigned(strip(x)) = <<"n", "a", "n">>

\* digits, or digits with one point and at least one digit around it
IsDecimalLiteral(body) ==
    IF Contains(body, ".")
    THEN LET ip == BeforeFirst(body, ".")
             fp == AfterFirst(body, ".")
         IN  /\ ip = << >> \/ IsDigits(ip)
             /\ fp = << >> \/ IsDigits(fp)
             /\ ip # << >> \/ fp # << >>
    ELSE IsDigits(body)

\* float(x) succeeds (no ValueError)
IsFloatLiteral(x) == IsNaNLiteral(x) \/ IsDecimalLiteral(Unsigned(strip(x)))

\* float(x) as a time in ticks (exact for literals of at most two decimals)
FloatValue(x) ==
    IF IsNaNLiteral(x) THEN NaN
    ELSE LET body == Unsigned(strip(x))
             ip == BeforeFirst(body, ".")
             fp == AfterFirst(body, ".")
         IN  Signed(strip(x),
                    DecimalValue(ip) * 100 * TicksPerCs
                    + (DecimalValue(fp) * 100 * TicksPerCs) \div PowerOfTen(Len(fp)))

\* comparisons of floats
FLt(a, b) == a # NaN /\ b # NaN /\ a < b
FGt(a, b) == a # NaN /\ b # NaN /\ a > b
FGe(a, b) == a # NaN /\ b # NaN /\ a >= b

\* results of the parsers: None, a tuple (start, end), a list, or the dict of
\* parse_split_trim_input
ParseNone == [kind |-> "None"]
ParsedTuple(a, b) == [kind |-> "tuple", v |-> <<a, b>>]
ParsedList(items) == [kind |-> "list", v |-> items]
ParsedDict(m, points, ranges, frame_marker) ==
    [kind |-> "dict", mode |-> m, points |-> points, ranges |-> ranges,
     is_frame |-> frame_marker]

\* "if x:" for a parser result
Truthy(r) == r.kind = "tuple" \/ (r.kind = "list" /\ r.v # << >>)

parse_frame_range(input_str, max_frames) ==
    IF input_str = << >> \/ ~Contains(input_str, "-") THEN ParseNone
    ELSE LET parts == split(input_str, "-")
         IN  IF Len(parts) # 2 THEN ParseNone
             ELSE IF ~IsIntLiteral(parts[1]) \/ ~IsIntLiteral(parts[2]) THEN ParseNone
             ELSE LET start == IntValue(parts[1])
                      end == IntValue(parts[2])
                  IN  IF start < 0 \/ end >= max_frames \/ start > end THEN ParseNone
                      ELSE ParsedTuple(start, end)

parse_split_frames(input_str, max_frames) ==
    IF input_str = << >> THEN ParseNone
    ELSE LET frame_strs == StrippedNonEmpty(split(input_str, ","))
         IN  IF \E k \in 1..Len(frame_strs) : ~IsIntLiteral(frame_strs[k]) THEN ParseNone
             ELSE LET frames == [k \in 1..Len(frame_strs) |-> IntValue(frame_strs[k])]
                  IN  IF \E k \in 1..Len(frames) : frames[k] < 0 \/ frames[k] >= max_frames
                      THEN ParseNone
                      ELSE ParsedList(frames)

parse_time_range(input_str, max_duration) ==
    IF input_str = << >> \/ ~Contains(input_str, "-") THEN ParseNone
    ELSE LET parts == split(input_str, "-")
         IN  IF Len(parts) # 2 THEN ParseNone
             ELSE IF ~IsFloatLiteral(parts[1]) \/ ~IsFloatLiteral(parts[2]) THEN ParseNone
             ELSE LET start == FloatValue(parts[1])
                      end == FloatValue(parts[2])
                  IN  IF FLt(start, 0) \/ FGt(end, max_duration) \/ FGe(start, end)
                      THEN ParseNone
                      ELSE ParsedTuple(start, end)

parse_split_times(input_str, max_duration) ==
    IF input_str = << >> THEN ParseNone
    ELSE LET time_strs == StrippedNonEmpty(split(input_str, ","))
         IN  IF \E k \in 1..Len(time_strs) : ~IsFloatLiteral(time_strs[k]) THEN ParseNone
             ELSE LET times == [k \in 1..Len(time_strs) |-> FloatValue(time_strs[k])]
                  IN  IF \E k \in 1..Len(times) :
                             FLt(times[k], 0) \/ FGe(times[k], max_duration)
                      THEN ParseNone
                      ELSE ParsedList(times)

\* faulty variant: only the short frame marker is recognised
has_frame_prefix_short(s) == startswith(s, <<"f", ":">>)

\* input_str.startswith(('f:', 'frame:'))
has_frame_prefix(s) ==
    startswith(s, <<"f", ":">>) \/ startswith(s, <<"f", "r", "a", "m", "e", ":">>)

\* faulty variant: one part that is no valid range invalidates all of them
RECURSIVE collect_ranges_strict(_, _, _, _)
collect_ranges_strict(parts, frame_marker, max_duration, max_frames) ==
    IF parts = << >> THEN << >>
    ELSE LET part == Head(parts)
             range_tuple == IF frame_marker THEN parse_frame_range(part, max_frames)
                            ELSE parse_time_range(part, max_duration)
             rest == collect_ranges_strict(Tail(parts), frame_marker, max_duration, max_frames)
         IN  IF Contains(part, "-") /\ Truthy(range_tuple)
                 /\ Len(rest) = Len(parts) - 1
             THEN <<range_tuple.v>> \o rest
             ELSE << >>

\* faulty variant: the ranges sorted and without duplicates
collect_ranges_sorted(parts, frame_marker, max_duration, max_frames) ==
    LET found == {parts[k] : k \in {j \in 1..Len(parts) :
                     /\ Contains(parts[j], "-")
                     /\ Truthy(IF frame_marker THEN parse_frame_range(parts[j], max_frames)
                               ELSE parse_time_range(parts[j], max_duration))}}
        tuples == {(IF frame_marker THEN parse_frame_range(p, max_frames)
                    ELSE parse_time_range(p, max_duration)).v : p \in found}
        RECURSIVE Ordered(_)
        Ordered(S) ==
            IF S = {} THEN << >>
            ELSE LET m == CHOOSE x \in S : \A y \in S :
                              x[1] < y[1] \/ (x[1] = y[1] /\ x[2] <= y[2])
                 IN  <<m>> \o Ordered(S \ {m})
    IN  Ordered(tuples)

\* the loop over the comma-separated parts in trim mode: the ranges of the
\* hyphenated parts that parse, in the order of the parts
RECURSIVE collect_ranges(_, _, _, _)
collect_ranges(parts, frame_marker, max_duration, max_frames) ==
    IF parts = << >> THEN << >>
    ELSE LET part == Head(parts)
             range_tuple == IF frame_marker THEN parse_frame_range(part, max_frames)
                            ELSE parse_time_range(part, max_duration)
             rest == collect_ranges(Tail(parts), frame_marker, max_duration, max_frames)
         IN  IF Contains(part, "-") /\ Truthy(range_tuple)
             THEN <<range_tuple.v>> \o rest
             ELSE rest

\* the last part of split mode: "Try single number"
single_number(s, frame_marker, max_duration, max_frames, d) ==
    IF frame_marker
    THEN IF ~IsIntLiteral(s) THEN ParseNone
         ELSE LET single_frame == IntValue(s)
                  time_points == frames_to_time_points(d, <<single_frame>>)
              IN  IF 0 <= single_frame /\ single_frame < max_frames /\ time_points # << >>
                  THEN ParsedDict("split", time_points, << >>, TRUE)
                  ELSE ParseNone
    ELSE IF ~IsFloatLiteral(s) THEN ParseNone
         ELSE LET single_time == FloatValue(s)
              IN  IF FGe(single_time, 0) /\ FLt(single_time, max_duration)
                  THEN ParsedDict("split", <<single_time>>, << >>, FALSE)
                  ELSE ParseNone

parse_split_trim_input(input_str0, max_duration, max_frames, d) ==
    IF input_str0 = << >> \/ strip(input_str0) = << >> THEN ParseNone
    ELSE LET stripped == strip(input_str0)
             frame_marker == has_frame_prefix(stripped)
             input_str == IF frame_marker THEN strip(AfterFirst(stripped, ":")) ELSE stripped
         IN  IF frame_marker /\ input_str = << >> THEN ParseNone
             ELSE IF Contains(input_str, "-")
             THEN LET parts == StrippedNonEmpty(split(input_str, ","))
                      ranges == collect_ranges(parts, frame_marker, max_duration, max_frames)
                  IN  IF ranges # << >>
                      THEN ParsedDict("trim", << >>, ranges, frame_marker)
                      ELSE ParseNone
             ELSE IF Contains(input_str, ",") \/ strip(input_str) # << >>
             THEN IF frame_marker
                  THEN LET points == parse_split_frames(input_str, max_frames)
                           time_points == IF Truthy(points)
                                          THEN frames_to_time_points(d, points.v)
                                          ELSE << >>
                       IN  IF Truthy(points) /\ time_points # << >>
                           THEN ParsedDict("split", time_points, << >>, TRUE)
                           ELSE single_number(input_str, frame_marker, max_duration,
                                              max_frames, d)
                  ELSE LET points == parse_split_times(input_str, max_duration)
                       IN  IF Truthy(points)
                           THEN ParsedDict("split", points.v, << >>, FALSE)
                           ELSE single_number(input_str, frame_marker, max_duration,
                                              max_frames, d)
             ELSE ParseNone

\* ------------------------------------------------------------------------
\* The planner specification: one of the parsers is called on a typed input
\* string; a trim plan is then dispatched by the cli loop.
\*
\* An input string is typed as an optional frame marker followed by segments
\* separated by commas, each segment being literals joined by hyphens.  A
\* literal is recorded with what it denotes: whether int() accepts it
\* (isint), whether float() gives it a real value (isnum), its value as an
\* integer (units) and as a time in centiseconds (cs).

Literal(t, i, n, u, c) == [text |-> t, isint |-> i, isnum |-> n, units |-> u, cs |-> c]

LitBlank == Literal(<<" ">>, FALSE, FALSE, 0, 0)
LitZero == Literal(<<"0">>, TRUE, TRUE, 0, 0)
LitOne == Literal(<<" ", "1">>, TRUE, TRUE, 1, 100)
LitThree == Literal(<<"3">>, TRUE, TRUE, 3, 300)
LitTwoAndHalf == Literal(<<"2", ".", "5">>, FALSE, TRUE, 0, 250)
LitThreeAndHalf == Literal(<<"3", ".", "5">>, FALSE, TRUE, 0, 350)
LitTen == Literal(<<"1", "0">>, TRUE, TRUE, 10, 1000)
LitFifty == Literal(<<"5", "0">>, TRUE, TRUE, 50, 5000)
LitJunk == Literal(<<"x">>, FALSE, FALSE, 0, 0)
LitNaN == Literal(<<"n", "a", "n">>, FALSE, FALSE, 0, 0)
LitMinusOne == Literal(<<"-", "1">>, TRUE, TRUE, -1, -100)

UnifiedLiterals == {LitBlank, LitZero, LitOne, LitThree, LitTwoAndHalf, LitJunk}
ExplicitLiterals == UnifiedLiterals \cup {LitNaN, LitMinusOne}

\* segments: a bare literal, "a-b", and one with two hyphens
SegmentsOver(lits) ==
    {<<a>> : a \in lits} \cup {<<a, b>> : a \in lits, b \in lits}
    \cup {<<LitZero, LitOne, LitThree>>}

FrameMarkers == {<<"f", ":">>, <<"f", "r", "a", "m", "e", ":">>, <<" ", "f", ":">>}
Markers == {<< >>} \cup FrameMarkers

RECURSIVE Join(_, _)
Join(texts, sep) ==
    IF texts = << >> THEN << >>
    ELSE IF Len(texts) = 1 THEN texts[1]
    ELSE texts[1] \o <<sep>> \o Join(Tail(texts), sep)

SegmentText(seg) == Join([k \in 1..Len(seg) |-> seg[k].text], "-")

TypedText(marker, segs) ==
    marker \o Join([k \in 1..Len(segs) |-> SegmentText(segs[k])], ",")

\* the timeline the planner is run on: 3 frames of 1 second
PlannerDelays == <<100, 100, 100>>
\* the documented trim scenario: a 100-frame asset
FrameScenarioDelays == [k \in 1..100 |-> 10]

PlanOf(f, marker, segs) ==
    [fn |-> f, marker |-> marker, segs |-> segs, text |-> TypedText(marker, segs),
     result |-> ParseNone, returned |-> FALSE]

SegmentLists(S) == UNION {[1..n -> S] : n \in 0..MaxSegments}

PlannerCalls(d) ==
    IF d = FrameScenarioDelays
    THEN {PlanOf("parse_split_trim_input", <<"f", ":">>, <<<<LitTen, LitFifty>>>>)}
    ELSE IF d = SplitScenarioDelays
    THEN {PlanOf("parse_split_trim_input", << >>, <<<<LitTwoAndHalf>>, <<LitThreeAndHalf>>>>)}
    ELSE {PlanOf(f, << >>, segs) :
             f \in {"parse_frame_range", "parse_time_range"},
             segs \in {<< >>} \cup {<<seg>> : seg \in SegmentsOver(ExplicitLiterals)}}
         \cup
         {PlanOf(f, << >>, segs) :
             f \in {"parse_split_frames", "parse_split_times"},
             segs \in SegmentLists({<<a>> : a \in ExplicitLiterals})}
         \cup
         {PlanOf("parse_split_trim_input", marker, segs) :
             marker \in Markers, segs \in SegmentLists(SegmentsOver(UnifiedLiterals))}

PlannerInit ==
    /\ delays \in {PlannerDelays, FrameScenarioDelays, SplitScenarioDelays}
    /\ plan \in PlannerCalls(delays)
    /\ trim_jobs = << >>
    /\ call = NoCall
    /\ rescale = NoRescale
    /\ NoPipeline
    /\ NoCommand

Returns(r) ==
    /\ ~plan.returned
    /\ plan' = [plan EXCEPT !.result = r, !.returned = TRUE]
    /\ UNCHANGED <<delays, call, rescale, pipeline_vars, trim_jobs, command_vars>>

CallParseFrameRange ==
    /\ plan.fn = "parse_frame_range"
    /\ Returns(parse_frame_range(plan.text, info_frames(delays)))

CallParseTimeRange ==
    /\ plan.fn = "parse_time_range"
    /\ Returns(parse_time_range(plan.text, info_duration(delays)))

CallParseSplitFrames ==
    /\ plan.fn = "parse_split_frames"
    /\ Returns(parse_split_frames(plan.text, info_frames(delays)))

CallParseSplitTimes ==
    /\ plan.fn = "parse_split_times"
    /\ Returns(parse_split_times(plan.text, info_duration(delays)))

CallParseSplitTrimInput ==
    /\ plan.fn = "parse_split_trim_input"
    /\ Returns(parse_split_trim_input(plan.text, info_duration(delays),
                                      info_frames(delays), delays))

\* cli: one iteration of "for i, current_range in enumerate(trim_ranges)" over
\* the ranges of a trim plan; the job is numbered i + 1 whether or not
\* trim_gif succeeds
CliTrimDispatch ==
    /\ plan.fn = "parse_split_trim_input"
    /\ plan.returned
    /\ plan.result.kind = "dict"
    /\ plan.result.mode = "trim"
    /\ Len(trim_jobs) < Len(plan.result.ranges)
    /\ LET i == Len(trim_jobs)
       IN  trim_jobs' = Append(trim_jobs,
                               [number |-> i + 1, range |-> plan.result.ranges[i + 1]])
    /\ UNCHANGED <<delays, call, rescale, pipeline_vars, plan, command_vars>>

PlannerNext ==
    \/ CallParseFrameRange
    \/ CallParseTimeRange
    \/ CallParseSplitFrames
    \/ CallParseSplitTimes
    \/ CallParseSplitTrimInput
    \/ CliTrimDispatch

SpecPlanner == PlannerInit /\ [][PlannerNext]_vars

\* ------------------------------------------------------------------------
\* The commands (cli.py): "optimize" and "split" on a GIF whose information
\* was read and with ImageMagick installed.  A command parses its options,
\* asks its questions when it is interactive, and calls split_gif, trim_gif or
\* optimize_gif, whose external processes are the subject of the pipeline
\* specification; here a call is recorded in cli.called.

\* an option that was not given (None)
NoValue == -1

\* "if x:" for an option value
Given(x) == x # NoValue /\ x # 0

\* faulty variant: the check made with "is not None"
any_parameter_not_none(width, target_fps, colors) ==
    width # NoValue \/ target_fps # NoValue \/ colors # NoValue

\* any([opt_width, opt_fps, opt_colors])
any_parameter(width, target_fps, colors) ==
    Given(width) \/ Given(target_fps) \/ Given(colors)

\* the questions for width, FPS and colors, asked for each option that is
\* None; cli.answers is what the user types: nothing ("none"), a number at
\* the first question ("some"), or text that int() / float() rejects ("bad")
Asked(c) == c.width = NoValue \/ c.fps = NoValue \/ c.colors = NoValue

Answered(c) ==
    IF c.answers # "some" THEN c
    ELSE IF c.width = NoValue THEN [c EXCEPT !.width = 320]
    ELSE IF c.fps = NoValue THEN [c EXCEPT !.fps = 10]
    ELSE IF c.colors = NoValue THEN [c EXCEPT !.colors = 64]
    ELSE c

\* sys.exit(code) after click.echo of an error, a warning or a cancellation
Exit(c, code, message) ==
    [c EXCEPT !.pc = "done", !.exit_code = code, !.reported = message]

\* the split command's --time-range / --frame-range: with a comma, the ranges
\* of the parts that parse; without, the one range
cli_parse_ranges(text, frame_based, max_duration, max_frames) ==
    LET parse(part) == IF frame_based THEN parse_frame_range(part, max_frames)
                       ELSE parse_time_range(part, max_duration)
        RECURSIVE Collect(_)
        Collect(parts) ==
            IF parts = << >> THEN << >>
            ELSE IF Truthy(parse(Head(parts)))
            THEN <<parse(Head(parts)).v>> \o Collect(Tail(parts))
            ELSE Collect(Tail(parts))
    IN  IF Contains(text, ",")
        THEN LET trim_ranges == Collect(StrippedNonEmpty(split(text, ",")))
             IN  IF trim_ranges # << >> THEN ParsedList(trim_ranges) ELSE ParseNone
        ELSE IF Truthy(parse(text)) THEN ParsedList(<<parse(text).v>>) ELSE ParseNone

\* the split command's --time-points / --frame-points
cli_parse_points(text, frame_based, max_duration, max_frames, d) ==
    IF frame_based
    THEN LET frame_nums == parse_split_frames(text, max_frames)
         IN  IF ~Truthy(frame_nums) THEN ParseNone
             ELSE IF frames_to_time_points(d, frame_nums.v) = << >> THEN ParseNone
             ELSE ParsedList(frames_to_time_points(d, frame_nums.v))
    ELSE LET points == parse_split_times(text, max_duration)
         IN  IF Truthy(points) THEN points ELSE ParseNone

\* what the user types as an option value or at the prompt for the operation
CommandInputs ==
    {<< >>,
     <<<<LitBlank>>>>,
     <<<<LitOne>>>>,
     <<<<LitOne>>, <<LitTwoAndHalf>>>>,
     <<<<LitJunk>>>>,
     <<<<LitTen>>>>,
     <<<<LitOne>>, <<LitTen>>>>,
     <<<<LitZero, LitOne>>>>,
     <<<<LitOne, LitThree>>, <<LitZero, LitOne>>>>,
     <<<<LitOne, LitZero>>>>,
     <<<<LitZero, LitTen>>>>,
     <<<<LitZero, LitOne>>, <<LitJunk>>>>,
     <<<<LitZero, LitOne, LitThree>>>>}

CommandMarkers == {<< >>, <<"f", ":">>}

Prompts == {PlanOf("parse_split_trim_input", marker, segs) :
               marker \in CommandMarkers, segs \in CommandInputs}

OptionParser ==
    [time_points |-> "parse_split_times", frame_points |-> "parse_split_frames",
     time_range |-> "parse_time_range", frame_range |-> "parse_frame_range"]

CommandOptions == {"none", "time_points", "frame_points", "time_range", "frame_range"}

\* the runs of a command: the options after the preset was merged in, and the
\* answers the user will give
Commands ==
    {[command |-> c, non_interactive |-> ni, option |-> o,
      output_exists |-> ex, overwrite |-> ov, confirm |-> cf,
      width |-> w, fps |-> f, colors |-> n, answers |-> a,
      mode |-> "none", pc |-> "start", exit_code |-> -1, reported |-> "none",
      called |-> "none"] :
        c \in {"optimize", "split"}, ni \in BOOLEAN, o \in CommandOptions,
        ex \in BOOLEAN, ov \in BOOLEAN, cf \in BOOLEAN,
        w \in {NoValue, 0, 320}, f \in {NoValue, 10}, n \in {NoValue, 64},
        a \in {"none", "some", "bad"}}

\* fields that play no part in a run are held at one value
CommandRuns ==
    {c \in Commands :
        /\ c.command = "optimize" => c.option = "none"
        /\ c.command = "split" => ~c.output_exists
        /\ ~c.output_exists => ~c.overwrite
        /\ (~c.output_exists \/ c.overwrite \/ c.non_interactive) => ~c.confirm
        /\ c.non_interactive => c.answers = "none"}

CommandInit ==
    /\ delays = PlannerDelays
    /\ cli \in CommandRuns
    /\ plan \in (IF cli.option # "none"
                 THEN {PlanOf(OptionParser[cli.option], << >>, segs) :
                          segs \in CommandInputs \ {<< >>}}
                 ELSE IF cli.non_interactive THEN {NoPlan}
                 ELSE Prompts)
    /\ trim_jobs = << >>
    /\ probe = NoProbe
    /\ call = NoCall
    /\ rescale = NoRescale
    /\ NoPipeline

command_rest == <<delays, call, rescale, pipeline_vars, trim_jobs, probe>>

\* after the operation is known or skipped
AfterOutputCheck(c) ==
    [c EXCEPT !.pc = IF c.non_interactive THEN "validate" ELSE "prompt_operation"]

\* optimize: "Check if output file exists"
OptimizeCheckOutput ==
    /\ cli.command = "optimize"
    /\ cli.pc = "start"
    /\ cli' = IF cli.output_exists /\ ~cli.overwrite
              THEN IF cli.non_interactive THEN Exit(cli, 1, "error")
                   ELSE IF ~cli.confirm THEN Exit(cli, 0, "cancelled")
                   ELSE AfterOutputCheck(cli)
              ELSE AfterOutputCheck(cli)
    /\ UNCHANGED <<command_rest, plan>>

\* the text typed at the prompt, parsed by parse_split_trim_input
PromptResult ==
    parse_split_trim_input(strip(plan.text), info_duration(delays),
                           info_frames(delays), delays)

\* optimize: the unified split/trim prompt; input that does not parse is
\* answered with a warning and the command goes on to optimize
OptimizePromptOperation ==
    /\ cli.command = "optimize"
    /\ cli.pc = "prompt_operation"
    /\ IF strip(plan.text) = << >>
       THEN /\ cli' = [cli EXCEPT !.pc = "prompt_parameters"]
            /\ UNCHANGED plan
       ELSE /\ plan' = [plan EXCEPT !.result = PromptResult, !.returned = TRUE]
            /\ cli' = IF PromptResult.kind = "dict"
                      THEN [cli EXCEPT !.mode = PromptResult.mode, !.pc = "run"]
                      ELSE [cli EXCEPT !.reported = "warning",
                                       !.pc = "prompt_parameters"]
    /\ UNCHANGED command_rest

\* optimize: split_gif called from the prompt; sys.exit(0) whatever it returns
OptimizeRunSplit ==
    /\ cli.command = "optimize"
    /\ cli.pc = "run"
    /\ cli.mode = "split"
    /\ \E produced \in BOOLEAN :
          cli' = [Exit(cli, 0, IF produced THEN "none" ELSE "warning")
                      EXCEPT !.called = "split_gif"]
    /\ UNCHANGED <<command_rest, plan>>

\* optimize: trim_gif called for each range from the prompt; sys.exit(0)
OptimizeRunTrim ==
    /\ cli.command = "optimize"
    /\ cli.pc = "run"
    /\ cli.mode = "trim"
    /\ \E produced \in BOOLEAN :
          cli' = [Exit(cli, 0, IF produced THEN "none" ELSE "warning")
                      EXCEPT !.called = "trim_gif"]
    /\ UNCHANGED <<command_rest, plan>>

\* the questions for width, FPS and colors; int() / float() of a bad answer
\* raises ValueError, which the command's "except Exception" reports
PromptParameters ==
    /\ cli.pc = "prompt_parameters"
    /\ cli' = IF Asked(cli) /\ cli.answers = "bad" THEN Exit(cli, 1, "error")
              ELSE [Answered(cli) EXCEPT
                       !.pc = IF cli.command = "optimize" THEN "validate" ELSE "run"]
    /\ UNCHANGED <<command_rest, plan>>

\* optimize: "Validate that at least one optimization parameter is provided"
OptimizeValidate ==
    /\ cli.command = "optimize"
    /\ cli.pc = "validate"
    /\ cli' = IF ~any_parameter(cli.width, cli.fps, cli.colors)
              THEN Exit(cli, 1, "error")
              ELSE [cli EXCEPT !.mode = "optimize", !.pc = "run"]
    /\ UNCHANGED <<command_rest, plan>>

\* optimize: optimize_gif is called; an exception it raises is reported
OptimizeRun ==
    /\ cli.command = "optimize"
    /\ cli.pc = "run"
    /\ cli.mode = "optimize"
    /\ \E produced \in BOOLEAN :
          cli' = [(IF produced THEN Exit(cli, 0, "none") ELSE Exit(cli, 1, "error"))
                      EXCEPT !.called = "optimize_gif"]
    /\ UNCHANGED <<command_rest, plan>>

\* split: the options --time-points, --frame-points, --time-range and
\* --frame-range; a value that does not parse ends the command
SplitParseOptions ==
    /\ cli.command = "split"
    /\ cli.pc = "start"
    /\ IF cli.option = "none"
       THEN /\ cli' = [cli EXCEPT !.pc = IF cli.non_interactive THEN "validate"
                                         ELSE "prompt_operation"]
            /\ UNCHANGED plan
       ELSE LET frame_based == cli.option \in {"frame_points", "frame_range"}
                points == cli.option \in {"time_points", "frame_points"}
                r == IF points
                     THEN cli_parse_points(plan.text, frame_based, info_duration(delays),
                                           info_frames(delays), delays)
                     ELSE cli_parse_ranges(plan.text, frame_based, info_duration(delays),
                                           info_frames(delays))
            IN  /\ plan' = [plan EXCEPT !.result = r, !.returned = TRUE]
                /\ cli' = IF ~Truthy(r) THEN Exit(cli, 1, "error")
                          ELSE [cli EXCEPT !.mode = IF points THEN "split" ELSE "trim",
                                           !.pc = "validate"]
    /\ UNCHANGED command_rest

\* split: the unified prompt when no operation was given; input that does
\* not parse ends the command
SplitPromptOperation ==
    /\ cli.command = "split"
    /\ cli.pc = "prompt_operation"
    /\ IF strip(plan.text) = << >>
       THEN /\ cli' = [cli EXCEPT !.pc = "validate"]
            /\ UNCHANGED plan
       ELSE /\ plan' = [plan EXCEPT !.result = PromptResult, !.returned = TRUE]
            /\ cli' = IF PromptResult.kind = "dict"
                      THEN [cli EXCEPT !.mode = PromptResult.mode, !.pc = "validate"]
                      ELSE Exit(cli, 1, "error")
    /\ UNCHANGED command_rest

\* split: "Validate that an operation was specified"
SplitValidate ==
    /\ cli.command = "split"
    /\ cli.pc = "validate"
    /\ cli' = IF cli.mode = "none" THEN Exit(cli, 1, "error")
              ELSE [cli EXCEPT !.pc = IF cli.non_interactive THEN "run"
                                      ELSE "prompt_parameters"]
    /\ UNCHANGED <<command_rest, plan>>

\* split: split_gif is called; no segment is an error
SplitRunSplit ==
    /\ cli.command = "split"
    /\ cli.pc = "run"
    /\ cli.mode = "split"
    /\ \E produced \in BOOLEAN :
          cli' = [(IF produced THEN Exit(cli, 0, "none") ELSE Exit(cli, 1, "error"))
                      EXCEPT !.called = "split_gif"]
    /\ UNCHANGED <<command_rest, plan>>

\* split: trim_gif is called for each range; no trimmed file is an error
SplitRunTrim ==
    /\ cli.command = "split"
    /\ cli.pc = "run"
    /\ cli.mode = "trim"
    /\ \E produced \in BOOLEAN :
          cli' = [(IF produced THEN Exit(cli, 0, "none") ELSE Exit(cli, 1, "error"))
                      EXCEPT !.called = "trim_gif"]
    /\ UNCHANGED <<command_rest, plan>>

CommandNext ==
    \/ OptimizeCheckOutput
    \/ OptimizePromptOperation
    \/ OptimizeRunSplit
    \/ OptimizeRunTrim
    \/ PromptParameters
    \/ OptimizeValidate
    \/ OptimizeRun
    \/ SplitParseOptions
    \/ SplitPromptOperation
    \/ SplitValidate
    \/ SplitRunSplit
    \/ SplitRunTrim

SpecCommand == CommandInit /\ [][CommandNext]_vars

\* ------------------------------------------------------------------------
\* Vocabulary of the properties (frame k is 0-based)

\* time at which frame k starts / ends being displayed
FrameStartTime(d, k) == SumSeq(Prefix(d, k)) * TicksPerCs
FrameEndTime(d, k) == SumSeq(Prefix(d, k + 1)) * TicksPerCs

\* end_time after the clamping of time_range_to_frames
ClampedEnd(d, e) ==
    IF e = NoEndTime \/ e > FrameEndTime(d, Len(d) - 1) THEN FrameEndTime(d, Len(d) - 1) ELSE e

\* the frames whose cumulative end time exceeds time t
FramesEndingAfter(d, t) == {k \in 0..(Len(d) - 1) : FrameEndTime(d, k) > t}

StrictlyInside(d, t, k) == FrameStartTime(d, k) < t /\ t < FrameEndTime(d, k)

ValidWindowReturned ==
    /\ call.op = "time_range_to_frames"
    /\ call.returned
    /\ call.result # None

\* C2: on a timeline whose delays are all >= 1, frame -> time -> frame of a
\* valid frame range (f0, f1) is never invalid and gives (s, e) with s <= f0
\* and e >= f1.
C2_RoundTripCovers ==
    (call.op = "round_trip" /\ AllPositive(delays)) =>
        /\ call.result # None
        /\ call.result[1] <= call.a
        /\ call.result[2] >= call.b

C2_Witness ==
    /\ call.op = "round_trip"
    /\ AllPositive(delays)
    /\ 0 < call.a /\ call.a < call.b /\ call.b < Len(delays) - 1
    /\ call.result # None

\* C3 as claimed: for a valid window the end frame is the index just before the
\* first frame whose cumulative end time exceeds endTime, and the last frame
\* when no frame's cumulative end time exceeds endTime.
C3_EndFrameJustBefore ==
    ValidWindowReturned =>
        LET after == FramesEndingAfter(delays, ClampedEnd(delays, call.b))
        IN  call.result[2] = IF after = {} THEN Len(delays) - 1 ELSE SetMin(after) - 1

\* C3 amended: for a valid window the end frame is the first frame whose
\* cumulative end time exceeds endTime itself, and the last frame when no
\* frame's cumulative end time exceeds endTime.
C3_EndFrameIsFirstEndingAfter ==
    ValidWindowReturned =>
        LET after == FramesEndingAfter(delays, ClampedEnd(delays, call.b))
        IN  call.result[2] = IF after = {} THEN Len(delays) - 1 ELSE SetMin(after)

C3_Witness ==
    /\ ValidWindowReturned
    /\ AllPositive(delays)
    /\ FramesEndingAfter(delays, ClampedEnd(delays, call.b)) # {}
    /\ call.result[2] > call.result[1]
    /\ call.result[2] < Len(delays) - 1

\* C4: a window whose start and end both fall strictly inside frames gives
\* (frame containing startTime, frame containing endTime); delays
\* [10,10,10,10,10] with window (0.15 s, 0.35 s) give (1, 3).
C4_StrictlyInsideWindow ==
    (call.op = "time_range_to_frames" /\ call.returned) =>
        /\ \A fa, fb \in 0..(Len(delays) - 1) :
              (/\ call.a < call.b
               /\ StrictlyInside(delays, call.a, fa)
               /\ StrictlyInside(delays, call.b, fb)) => call.result = <<fa, fb>>
        /\ (delays = ScenarioDelays /\ call.a = 15 * TicksPerCs /\ call.b = 35 * TicksPerCs)
              => call.result = <<1, 3>>

C4_Witness ==
    /\ call.op = "time_range_to_frames" /\ call.returned
    /\ delays = ScenarioDelays
    /\ call.a = 15 * TicksPerCs /\ call.b = 35 * TicksPerCs
    /\ StrictlyInside(delays, call.a, 1) /\ StrictlyInside(delays, call.b, 3)
    /\ call.result = <<1, 3>>

\* ------------------------------------------------------------------------
\* Properties of the rescaling

RescaledProperly ==
    /\ rescale.returned
    /\ Len(rescale.delays) > 0
    /\ SumSeq(rescale.delays) > 0
    /\ rescale.target_fps > 0

\* C9: for a non-empty delay list with positive mean and targetFps > 0 the
\* result has the length of the input and every value is >= 1.
C9_LengthAndFloor ==
    RescaledProperly =>
        /\ Len(rescale.result) = Len(rescale.delays)
        /\ \A i \in 1..Len(rescale.result) : rescale.result[i] >= 1

\* a delay whose quotient rounds to 0 was raised to 1
C9_Witness ==
    /\ RescaledProperly
    /\ \E i \in 1..Len(rescale.delays) :
          /\ 2 * QuotNum(rescale.delays, i) < QuotDen(rescale.delays, rescale.target_fps)
          /\ rescale.result[i] = 1
    /\ \E i \in 1..Len(rescale.delays) : rescale.result[i] > 1

\* mean(result) - 100/targetFps, multiplied by 2 * len * targetFps
MeanErrorScaled ==
    2 * rescale.target_fps * SumSeq(rescale.result) - 200 * Len(rescale.result)

HalfCsScaled == Len(rescale.result) * rescale.target_fps

\* C10 as claimed: the mean of the result differs from 100/targetFps by at
\* most half a centisecond.
C10_MeanWithinHalfCs ==
    RescaledProperly =>
        /\ MeanErrorScaled <= HalfCsScaled
        /\ MeanErrorScaled >= -HalfCsScaled

\* every delay / scaleFactor is at least 0.5, so the floor of 1 raises no
\* delay by more than half a centisecond
NoDelayBelowHalf ==
    \A i \in 1..Len(rescale.delays) :
        2 * QuotNum(rescale.delays, i) >= QuotDen(rescale.delays, rescale.target_fps)

\* C10 amended: the mean of the result is never less than 100/targetFps - 0.5,
\* and it is at most 100/targetFps + 0.5 whenever every delay / scaleFactor is
\* at least 0.5 (no delay is raised by the floor of 1 by more than 0.5).
C10_MeanLowerAndGuardedUpper ==
    RescaledProperly =>
        /\ MeanErrorScaled >= -HalfCsScaled
        /\ NoDelayBelowHalf => MeanErrorScaled <= HalfCsScaled

C10_Witness ==
    /\ RescaledProperly
    /\ NoDelayBelowHalf
    /\ MeanErrorScaled # 0
    /\ \E i, j \in 1..Len(rescale.result) : rescale.result[i] # rescale.result[j]

\* frame i's input delay is exactly twice frame j's (another frame)
TwiceAsLong(i, j) == i # j /\ rescale.delays[i] = 2 * rescale.delays[j]

\* C11 as claimed: whenever an input frame's delay is exactly twice another
\* frame's delay, its output delay is exactly twice that frame's output delay.
C11_TwiceStaysTwice ==
    RescaledProperly =>
        \A i, j \in 1..Len(rescale.delays) :
            TwiceAsLong(i, j) => rescale.result[i] = 2 * rescale.result[j]

\* C11 amended: whenever an input frame's delay is exactly twice another
\* frame's delay, its output delay is not shorter than that frame's output
\* delay and differs from twice that output delay by at most 1 centisecond
\* (each output is rounded to an integer and floored at 1).
C11_TwiceWithinOneCs ==
    RescaledProperly =>
        \A i, j \in 1..Len(rescale.delays) :
            TwiceAsLong(i, j) =>
                /\ rescale.result[i] >= rescale.result[j]
                /\ rescale.result[i] - 2 * rescale.result[j] <= 1
                /\ 2 * rescale.result[j] - rescale.result[i] <= 1

\* a frame twice as long as another, both rescaled above the floor, and the
\* output not exactly twice
C11_Witness ==
    /\ RescaledProperly
    /\ \E i, j \in 1..Len(rescale.delays) :
          /\ TwiceAsLong(i, j)
          /\ rescale.delays[j] >= 1
          /\ rescale.result[j] > 1
          /\ rescale.result[i] # 2 * rescale.result[j]

\* C12: each output delay is max(1, round(delay / scaleFactor)), the quotient
\* taken exactly, and delays [10,20,10] with targetFps 10 give [8,15,8].
C12_RoundedQuotientAndScenario ==
    RescaledProperly =>
        /\ \A i \in 1..Len(rescale.delays) :
              rescale.result[i] =
                  IntMax(1, PyRound(QuotNum(rescale.delays, i),
                                    QuotDen(rescale.delays, rescale.target_fps), 0))
        /\ (rescale.delays = RescaleScenarioDelays /\ rescale.target_fps = 10)
              => rescale.result = <<8, 15, 8>>

\* ------------------------------------------------------------------------
\* Properties of the pipelines

\* time t is the start time of some frame k, 0 < k < frameCount
AtFrameBoundary(d, t) == \E k \in 1..(Len(d) - 1) : FrameStartTime(d, k) = t

\* C1: when a split point is exactly the start time of a frame k
\* (0 < k < frameCount), the frame ranges resolved for the two adjacent
\* segments are disjoint: the earlier one ends before the later one starts.
C1_NoFrameInBothSegments ==
    op = "split" =>
        \A j \in DOMAIN frame_ranges :
            (/\ j + 1 \in DOMAIN frame_ranges
             /\ frame_ranges[j] # None
             /\ frame_ranges[j + 1] # None
             /\ AtFrameBoundary(delays, valid_points[j + 2]))
            => frame_ranges[j][2] < frame_ranges[j + 1][1]

CommittedPaths == {output_path(k) : k \in {j \in DOMAIN job_state : job_state[j] = "Committed"}}

\* C5: a failing external step of a split segment never leaves split_gif as an
\* error: every later segment is still processed, the outputs collected so far
\* stay complete, and the returned list holds exactly the paths of the
\* segments whose pipeline completed, in boundary order.
C5_SplitToleratesFailures ==
    op = "split" =>
        /\ pc # "failed"
        /\ \A q \in SeqRange(output_files) : outputs[q] = "complete"
        /\ pc = "returned" =>
              /\ \A k \in DOMAIN job_state :
                    job_state[k] \in {"Committed", "Failed", "Skipped"}
              /\ output_files = SortedSeq(CommittedPaths)

C5_Witness ==
    /\ op = "split"
    /\ pc = "returned"
    /\ DOMAIN job_state = 0..2
    /\ job_state[0] = "Committed"
    /\ job_state[1] = "Failed"
    /\ job_state[2] = "Committed"
    /\ output_files = <<output_path(0), output_path(2)>>

\* C6: in a split or trim job a file exists at the job's output path only
\* once coalesce, extract and transform have all succeeded.
C6_OutputOnlyAfterAllSteps ==
    op \in {"split", "trim"} =>
        \A k \in DOMAIN job_state :
            outputs[output_path(k)] # "absent" => job_state[k] = "Committed"

\* C7: once a split, trim or optimize job has ended, successfully or by an
\* error of an external step that the job handles, none of its temporary
\* files exists.
C7_NoTempsAfterJobEnd ==
    \A k \in DOMAIN job_state :
        job_state[k] \in {"Committed", "Failed"} => \A t \in temps : t[1] # k

C7_Witness ==
    /\ op = "split"
    /\ pc = "returned"
    /\ \E k \in DOMAIN job_state : job_state[k] = "Committed"
    /\ \E k \in DOMAIN job_state : job_state[k] = "Failed"
    /\ temps = {}

\* C8: when a job is left by the user's interrupt, its cleanup has run before
\* the program exits: no temporary file is left behind.
C8_NoTempsAfterInterrupt ==
    pc = "interrupted" => temps = {}

\* C13: in normalize mode with a target FPS, every output written by split,
\* trim or optimize has the delay round(100 / targetFps) on every frame.
C13_NormalizeSetsRoundedDelay ==
    (fps > 0 /\ fps_mode = "normalize") =>
        \A q \in DOMAIN outputs :
            outputs[q] = "complete" => set_delay[q] = PyRound(100, fps, 0)

\* split_gif has built its boundary list from a non-empty list of split
\* points on a timeline with totalDuration > 0
BoundariesBuilt ==
    /\ op = "split"
    /\ split_points # << >>
    /\ info_duration(delays) > 0

InteriorPoints ==
    {p \in SeqRange(split_points) : 0 < p /\ p < info_duration(delays)}

\* C14: the boundary list starts with 0, ends with totalDuration, is strictly
\* increasing, holds besides the two endpoints exactly the input points
\* strictly between them, and gives one segment per consecutive pair: k
\* distinct interior points give k + 1 segments, "2.5,3.5" on a 6-second asset
\* gives 3.
C14_BoundaryList ==
    BoundariesBuilt =>
        LET n == Len(valid_points)
        IN  /\ n >= 2
            /\ valid_points[1] = 0
            /\ valid_points[n] = info_duration(delays)
            /\ \A k \in 1..(n - 1) : valid_points[k] < valid_points[k + 1]
            /\ SeqRange(valid_points) = {0, info_duration(delays)} \cup InteriorPoints
            /\ pc = "loop"
            /\ DOMAIN job_state = 0..(n - 2)
            /\ Cardinality(DOMAIN job_state) = Cardinality(InteriorPoints) + 1
            /\ (delays = SplitScenarioDelays /\ split_points = SplitScenarioPoints)
                  => Cardinality(DOMAIN job_state) = 3

C14_Witness ==
    /\ BoundariesBuilt
    /\ delays = SplitScenarioDelays
    /\ split_points = SplitScenarioPoints
    /\ valid_points = <<0, 250 * TicksPerCs, 350 * TicksPerCs, 600 * TicksPerCs>>
    /\ DOMAIN job_state = 0..2

\* a frame-based trim job is between the resolution of its frame range and
\* the end of its transform step
FrameTrimJobRunning ==
    /\ op = "trim"
    /\ is_frame
    /\ pc \in {"coalesce", "extract", "transform"}

\* C16: for a frame-space trim range (a, b) with 0 <= a <= b < frameCount, the
\* frame range the job extracts is exactly (a, b).
C16_FrameTrimPassesThrough ==
    FrameTrimJobRunning =>
        /\ current_range \in ValidFrameRanges(delays)
        /\ frame_ranges[idx] = current_range

C16_Witness ==
    /\ FrameTrimJobRunning
    /\ job_state[idx] = "Extracted"
    /\ current_range[1] > 0
    /\ current_range[2] > current_range[1]
    /\ frame_ranges[idx] = current_range

\* ------------------------------------------------------------------------
\* Properties of the planner, stated on what the input was typed from
\* (plan.marker, plan.segs) against what the parser made of plan.text

UnifiedCall == plan.fn = "parse_split_trim_input" /\ plan.returned

HasFrameMarker == plan.marker \in FrameMarkers

Hyphenated(seg) == Len(seg) >= 2

\* a segment that is not empty after strip()
NonBlank(seg) == seg # <<LitBlank>>

TypedSegments == SelectSeq(plan.segs, NonBlank)

\* what a typed number denotes in the coordinate space the marker selects
DenotedPoint(lit) ==
    IF HasFrameMarker THEN FrameStartTime(delays, lit.units) ELSE lit.cs * TicksPerCs

DenotedRange(seg) ==
    IF HasFrameMarker THEN <<seg[1].units, seg[2].units>>
    ELSE <<seg[1].cs * TicksPerCs, seg[2].cs * TicksPerCs>>

PointInBounds(lit) ==
    IF HasFrameMarker
    THEN lit.isint /\ 0 <= lit.units /\ lit.units < Len(delays)
    ELSE lit.isnum /\ 0 <= lit.cs /\ lit.cs * TicksPerCs < info_duration(delays)

FrameRangeInBounds(seg) ==
    /\ Len(seg) = 2
    /\ seg[1].isint /\ seg[2].isint
    /\ 0 <= seg[1].units /\ seg[1].units <= seg[2].units /\ seg[2].units < Len(delays)

TimeRangeInBounds(seg) ==
    /\ Len(seg) = 2
    /\ seg[1].isnum /\ seg[2].isnum
    /\ 0 <= seg[1].cs /\ seg[1].cs < seg[2].cs
    /\ seg[2].cs * TicksPerCs <= info_duration(delays)

RangeValidates(seg) ==
    IF HasFrameMarker THEN FrameRangeInBounds(seg) ELSE TimeRangeInBounds(seg)

\* the ranges of the hyphenated segments that validate, in the order typed
RECURSIVE RangesTyped(_)
RangesTyped(segs) ==
    IF segs = << >> THEN << >>
    ELSE IF Hyphenated(Head(segs)) /\ RangeValidates(Head(segs))
    THEN <<DenotedRange(Head(segs))>> \o RangesTyped(Tail(segs))
    ELSE RangesTyped(Tail(segs))

\* range r comes before range q in sorted order
RangeBefore(r, q) == r[1] < q[1] \/ (r[1] = q[1] /\ r[2] < q[2])

C17_ModeAndSpaceFromText ==
    UnifiedCall =>
        /\ plan.result.kind # "None" =>
              /\ plan.result.is_frame = HasFrameMarker
              /\ plan.result.mode =
                    IF \E k \in 1..Len(plan.segs) : Hyphenated(plan.segs[k])
                    THEN "trim" ELSE "split"
              /\ plan.result.mode = "split" =>
                    plan.result.points =
                        [k \in 1..Len(TypedSegments) |-> DenotedPoint(TypedSegments[k][1])]
              /\ plan.result.mode = "trim" =>
                    \A k \in 1..Len(plan.result.ranges) :
                        \E j \in 1..Len(plan.segs) :
                            /\ Len(plan.segs[j]) = 2
                            /\ plan.result.ranges[k] = DenotedRange(plan.segs[j])
        /\ (Len(plan.segs) = 1 /\ Len(plan.segs[1]) = 1 /\ PointInBounds(plan.segs[1][1]))
              => plan.result = ParsedDict("split", <<DenotedPoint(plan.segs[1][1])>>,
                                          << >>, HasFrameMarker)
        /\ (delays = FrameScenarioDelays /\ plan.text = <<"f", ":", "1", "0", "-", "5", "0">>)
              => plan.result = ParsedDict("trim", << >>, <<<<10, 50>>>>, TRUE)

C17_Witness ==
    /\ UnifiedCall
    /\ delays = FrameScenarioDelays
    /\ plan.text = <<"f", ":", "1", "0", "-", "5", "0">>
    /\ plan.result = ParsedDict("trim", << >>, <<<<10, 50>>>>, TRUE)

\* C18: in trim mode the result holds exactly the ranges of the hyphenated
\* segments that validate, in input order; the other segments are dropped,
\* and there is no result only when no range validates.
C18_TrimKeepsValidRanges ==
    (UnifiedCall /\ \E k \in 1..Len(plan.segs) : Hyphenated(plan.segs[k])) =>
        IF RangesTyped(plan.segs) = << >>
        THEN plan.result = ParseNone
        ELSE plan.result = ParsedDict("trim", << >>, RangesTyped(plan.segs), HasFrameMarker)

\* a valid range kept although the other segment is hyphenated and invalid
C18_Witness ==
    /\ UnifiedCall
    /\ Len(plan.segs) = 2
    /\ Hyphenated(plan.segs[1]) /\ ~RangeValidates(plan.segs[1])
    /\ Hyphenated(plan.segs[2]) /\ RangeValidates(plan.segs[2])
    /\ plan.result.kind = "dict"
    /\ plan.result.ranges = <<DenotedRange(plan.segs[2])>>

\* empty or whitespace-only input
BlankInput == plan.text = << >> \/ plan.text = <<" ">>

\* what parse_split_trim_input returns for whitespace-only input
NoOperationOutcome ==
    parse_split_trim_input(<<" ">>, info_duration(delays), info_frames(delays), delays)

\* C19: the outcome for input that is not blank, and so in particular for
\* input that fails to parse, differs from the 'no operation' outcome for
\* blank input.
C19_NoOperationDistinguished ==
    (UnifiedCall /\ ~BlankInput) => plan.result # NoOperationOutcome

\* the non-blank literals of a list of one-literal segments
ListedLiterals == [k \in 1..Len(TypedSegments) |-> TypedSegments[k][1]]

\* C20: each explicit parser returns a result exactly when its bounds hold:
\* a time range when 0 <= start < end <= totalDuration, a frame range when
\* 0 <= start <= end < frameCount, a point list when every point is a number
\* in [0, totalDuration), respectively an index in [0, frameCount).
C20_ExplicitParsersExactlyInBounds ==
    plan.returned =>
        /\ plan.fn = "parse_time_range" =>
              plan.result =
                  IF plan.segs # << >> /\ TimeRangeInBounds(plan.segs[1])
                  THEN ParsedTuple(plan.segs[1][1].cs * TicksPerCs,
                                   plan.segs[1][2].cs * TicksPerCs)
                  ELSE ParseNone
        /\ plan.fn = "parse_frame_range" =>
              plan.result =
                  IF plan.segs # << >> /\ FrameRangeInBounds(plan.segs[1])
                  THEN ParsedTuple(plan.segs[1][1].units, plan.segs[1][2].units)
                  ELSE ParseNone
        /\ plan.fn = "parse_split_times" =>
              plan.result =
                  IF /\ plan.text # << >>
                     /\ \A k \in 1..Len(ListedLiterals) :
                           /\ ListedLiterals[k].isnum
                           /\ 0 <= ListedLiterals[k].cs
                           /\ ListedLiterals[k].cs * TicksPerCs < info_duration(delays)
                  THEN ParsedList([k \in 1..Len(ListedLiterals) |->
                                      ListedLiterals[k].cs * TicksPerCs])
                  ELSE ParseNone
        /\ plan.fn = "parse_split_frames" =>
              plan.result =
                  IF /\ plan.text # << >>
                     /\ \A k \in 1..Len(ListedLiterals) :
                           /\ ListedLiterals[k].isint
                           /\ 0 <= ListedLiterals[k].units
                           /\ ListedLiterals[k].units < Len(delays)
                  THEN ParsedList([k \in 1..Len(ListedLiterals) |-> ListedLiterals[k].units])
                  ELSE ParseNone

\* ------------------------------------------------------------------------
\* Properties of the commands, stated on what the user typed (plan.marker,
\* plan.segs) and the options given

\* the numbers typed are frame indices
FrameSpace == HasFrameMarker \/ cli.option \in {"frame_points", "frame_range"}

TypedPointOk(lit) ==
    IF FrameSpace
    THEN lit.isint /\ 0 <= lit.units /\ lit.units < Len(delays)
    ELSE lit.isnum /\ 0 <= lit.cs /\ lit.cs * TicksPerCs < info_duration(delays)

TypedRangeOk(seg) ==
    /\ Len(seg) = 2
    /\ IF FrameSpace
       THEN /\ seg[1].isint /\ seg[2].isint
            /\ 0 <= seg[1].units /\ seg[1].units <= seg[2].units
            /\ seg[2].units < Len(delays)
       ELSE /\ seg[1].isnum /\ seg[2].isnum
            /\ 0 <= seg[1].cs /\ seg[1].cs < seg[2].cs
            /\ seg[2].cs * TicksPerCs <= info_duration(delays)

\* the input is read as trim ranges: a range option, or a hyphen at the prompt
ReadAsRanges ==
    \/ cli.option \in {"time_range", "frame_range"}
    \/ cli.option = "none" /\ \E k \in 1..Len(plan.segs) : Hyphenated(plan.segs[k])

\* nothing was typed
TypedNothing == plan.marker = << >> /\ Len(plan.segs) <= 1 /\ TypedSegments = << >>

\* what was typed is a split or trim the timeline admits: at least one valid
\* range, or a list of points every one of which is in bounds
TypedOperationValid ==
    IF ReadAsRanges
    THEN \E k \in 1..Len(plan.segs) : TypedRangeOk(plan.segs[k])
    ELSE /\ TypedSegments # << >>
         /\ \A k \in 1..Len(TypedSegments) :
               Len(TypedSegments[k]) = 1 /\ TypedPointOk(TypedSegments[k][1])

\* the command has read split/trim input that is malformed or out of bounds
InputErrorRead ==
    /\ plan.fn # "none"
    /\ plan.returned
    /\ ~TypedNothing
    /\ ~TypedOperationValid

\* C21: once the command has read split/trim input that is malformed or out
\* of bounds, it has reported an error and ended, and it has called none of
\* split_gif, trim_gif and optimize_gif: no process is started, no output
\* written, and no other operation follows on the asset.
C21_InputErrorAborts ==
    InputErrorRead =>
        /\ cli.pc = "done"
        /\ cli.reported = "error"
        /\ cli.exit_code = 1
        /\ cli.called = "none"

\* optimize is run with no width, no FPS and no colors: none that counts
\* comes from the options or the preset, and the user enters none when asked
NoParameterGiven ==
    /\ cli.command = "optimize"
    /\ cli.width \in {NoValue, 0}
    /\ cli.fps \in {NoValue, 0}
    /\ cli.colors \in {NoValue, 0}
    /\ cli.answers # "some"

\* C22 as claimed: optimize with no width, FPS or colors is rejected before
\* any pipeline function is called: it ends with an error (or with the
\* user's own cancellation) and nothing was run.
C22_NoParametersRejected ==
    NoParameterGiven =>
        /\ cli.called = "none"
        /\ cli.pc = "done" => cli.reported \in {"error", "cancelled"}

\* C22 amended: optimize with no width, FPS or colors never calls
\* optimize_gif, so it never writes an unmodified copy; it ends with an error
\* (or the user's cancellation) and nothing run, unless the user typed a valid
\* split or trim at the interactive prompt, which is then run instead.
C22_NoParametersNeverOptimized ==
    NoParameterGiven =>
        /\ cli.called # "optimize_gif"
        /\ cli.called # "none" =>
              /\ ~cli.non_interactive
              /\ plan.returned
              /\ TypedOperationValid
        /\ (cli.pc = "done" /\ cli.called = "none") =>
              cli.reported \in {"error", "cancelled"}

\* the parameter check itself rejected the run: nothing else can end a
\* non-interactive run whose output path is free
C22_Witness ==
    /\ NoParameterGiven
    /\ cli.non_interactive
    /\ ~cli.output_exists
    /\ cli.width = 0
    /\ cli.pc = "done"
    /\ cli.reported = "error"
    /\ cli.exit_code = 1
    /\ cli.called = "none"

\* ------------------------------------------------------------------------
\* Further properties of the pipelines

\* a split, or a trim of several ranges: the runs whose outputs are numbered
NumberedRun == op = "split" \/ (op = "trim" /\ ntrim > 1)

\* C23: the job at position i (1-based) of a split or multi-range trim writes
\* the path numbered i and no other, whatever became of the jobs before it:
\* a path that was written belongs to the job of that number, every committed
\* job has its own numbered output, and the paths collected are distinct.
C23_NumberedByPosition ==
    NumberedRun =>
        /\ \A k \in DOMAIN job_state :
              job_state[k] = "Committed" =>
                  /\ outputs[k + 1] = "complete"
                  /\ k + 1 \in SeqRange(output_files)
        /\ \A q \in DOMAIN outputs :
              outputs[q] # "absent" =>
                  job_state[q - 1] \in {"Committed", "Failed", "Interrupted"}
        /\ \A q \in SeqRange(output_files) : job_state[q - 1] = "Committed"
        /\ \A a, b \in 1..Len(output_files) :
              a # b => output_files[a] # output_files[b]

\* the third segment is written as number 3 after two segments failed
C23_Witness ==
    /\ op = "split"
    /\ pc = "returned"
    /\ DOMAIN job_state = 0..2
    /\ job_state[0] = "Failed"
    /\ job_state[1] = "Failed"
    /\ job_state[2] = "Committed"
    /\ outputs[3] = "complete"
    /\ output_files = <<3>>

\* ------------------------------------------------------------------------
\* Further properties of the timeline

\* start_time after the clamping of time_range_to_frames
ClampedStart(t) == IF t < 0 THEN 0 ELSE t

\* C24: time_range_to_frames reads a negative startTime as 0 and an absent or
\* too-large endTime as totalDuration; it returns no result exactly when the
\* timeline has no delays or the clamped startTime >= the clamped endTime,
\* and otherwise, on delays >= 1, a range (s, e) with
\* 0 <= s <= e <= frameCount - 1.
C24_ClampedWindow ==
    (call.op = "time_range_to_frames" /\ call.returned) =>
        /\ call.result = None <=>
              (Len(delays) = 0 \/ ClampedStart(call.a) >= ClampedEnd(delays, call.b))
        /\ call.result = time_range_to_frames(delays, ClampedStart(call.a),
                                              ClampedEnd(delays, call.b))
        /\ (AllPositive(delays) /\ call.result # None) =>
              /\ 0 <= call.result[1]
              /\ call.result[1] <= call.result[2]
              /\ call.result[2] <= Len(delays) - 1

\* both clamps at work: a negative start and an end beyond the total
C24_Witness ==
    /\ call.op = "time_range_to_frames" /\ call.returned
    /\ AllPositive(delays)
    /\ Len(delays) >= 2
    /\ call.a < 0
    /\ call.b > info_duration(delays)
    /\ call.result = <<0, Len(delays) - 1>>

\* the total delay of frames a..b, in ticks
RangeDelay(d, a, b) == SumSeq(SubSeq(d, a + 1, b + 1)) * TicksPerCs

\* C25: frame_range_to_time returns no result exactly when startFrame < 0,
\* endFrame >= frameCount or startFrame > endFrame; otherwise startTime is the
\* total delay of the frames before startFrame, endTime that of frames
\* 0..endFrame, and endTime - startTime the total delay of
\* startFrame..endFrame.
C25_FrameRangeTimes ==
    (call.op = "frame_range_to_time" /\ call.returned) =>
        /\ call.result = None <=>
              (call.a < 0 \/ call.b >= Len(delays) \/ call.a > call.b)
        /\ call.result # None =>
              /\ call.result[1] = RangeDelay(delays, 0, call.a - 1)
              /\ call.result[2] = RangeDelay(delays, 0, call.b)
              /\ call.result[2] - call.result[1] = RangeDelay(delays, call.a, call.b)

\* an inner range of several frames of different delays
C25_Witness ==
    /\ call.op = "frame_range_to_time" /\ call.returned
    /\ 0 < call.a /\ call.a < call.b /\ call.b < Len(delays)
    /\ delays[call.a + 1] # delays[call.b + 1]
    /\ call.result # None
    /\ call.result[1] > 0
    /\ call.result[2] - call.result[1] = RangeDelay(delays, call.a, call.b)

\* an index of a frame of the timeline
InTimeline(frame_num) == 0 <= frame_num /\ frame_num < Len(delays)

\* C26: frames_to_time_points returns, in input order, for every input index
\* inside [0, frameCount) the total delay of the frames before it (0 for
\* frame 0); indices outside are dropped and change nothing else.
C26_FrameStartTimes ==
    (call.op = "frames_to_time_points" /\ call.returned) =>
        LET kept == SelectSeq(call.a, InTimeline)
        IN  call.result = [k \in 1..Len(kept) |-> RangeDelay(delays, 0, kept[k] - 1)]

\* an index out of range dropped in front of a later frame's start time
C26_Witness ==
    /\ call.op = "frames_to_time_points" /\ call.returned
    /\ Len(call.a) = 2
    /\ ~InTimeline(call.a[1])
    /\ InTimeline(call.a[2])
    /\ call.a[2] > 1
    /\ call.result = <<RangeDelay(delays, 0, call.a[2] - 1)>>
    /\ call.result[1] > 0

\* C27: every timeline that get_info constructs has at least one frame,
\* exactly as many delays as frames and no delay below 1, whatever the probe
\* printed, so no zero delay is in the timeline a conversion function is
\* applied to.
C27_TimelineRepaired ==
    (probe.read /\ probe.info.ok) =>
        /\ probe.info.frames >= 1
        /\ Len(probe.info.delays) = probe.info.frames
        /\ AllPositive(probe.info.delays)
        /\ call.returned => AllPositive(delays)

\* the delays of the source frames an output is made of, for the outputs of
\* split_gif (its segment) and of optimize_gif (the whole timeline)
OutputSourceDelays(q) ==
    IF op = "optimize" THEN delays ELSE segment_delays(delays, frame_ranges[q - 1])

\* C28: in preserve mode frame j of an output has the delay
\* scale_delays_proportionally(delays[startFrame..endFrame], targetFps)[j];
\* the delay the command sets on the frames of the output is that of each frame.
C28_PreserveKeepsFrameDelays ==
    (fps > 0 /\ fps_mode = "preserve" /\ op \in {"split", "optimize"}) =>
        \A q \in DOMAIN outputs :
            outputs[q] = "complete" =>
                \E e \in FpErrors(OutputSourceDelays(q), fps) :
                    LET scaled_delays ==
                            scale_delays_proportionally(OutputSourceDelays(q), fps, e)
                    IN  \A j \in 1..Len(scaled_delays) : set_delay[q] = scaled_delays[j]

\* the external steps of a split or trim job
JobSteps == {"coalesce", "extract", "transform"}

\* the state a job is in when each of its steps starts
StateBeforeStep ==
    [step \in JobSteps |->
        CASE step = "coalesce" -> "Pending"
          [] step = "extract" -> "Coalesced"
          [] step = "transform" -> "Extracted"]

\* the moves of one job from one state of the program to the next
JobMoves ==
    {<<"Pending", "Coalesced">>, <<"Coalesced", "Extracted">>,
     <<"Extracted", "Committed">>, <<"Pending", "Skipped">>}
    \cup ({"Pending", "Coalesced", "Extracted"} \X {"Failed", "Interrupted"})

\* what one step of the program may do to the jobs: only the current job
\* moves, along JobMoves, and it advances only by a step that was running
JobsMoveInOrder ==
    op \in {"split", "trim"} =>
        \A k \in (DOMAIN job_state) \cap (DOMAIN job_state') :
            \/ job_state'[k] = job_state[k]
            \/ /\ <<job_state[k], job_state'[k]>> \in JobMoves
               /\ k = idx
               /\ job_state'[k] \in {"Coalesced", "Extracted", "Committed"} =>
                     pc \in JobSteps

\* a step of a job is running only in the state its predecessor leaves, and
\* the produced files are those of committed jobs
StepsStartInOrder ==
    op \in {"split", "trim"} =>
        /\ pc \in JobSteps => job_state[idx] = StateBeforeStep[pc]
        /\ \A q \in SeqRange(output_files) : job_state[q - 1] = "Committed"

\* C29: in each split or trim job the steps run in the order coalesce,
\* extract, transform, each only after the one before it succeeded; a failed
\* step makes the job Failed, after which none of its steps runs, and the
\* job's output is in the list of produced files only after its transform
\* succeeded.
C29_StepsInOrder == []StepsStartInOrder /\ [][JobsMoveInOrder]_vars

\* the second job has reached its transform step through coalesce and extract
\* after the first job failed, which has produced nothing
C29_Witness ==
    /\ op \in {"split", "trim"}
    /\ idx = 1
    /\ pc = "transform"
    /\ job_state[0] = "Failed"
    /\ job_state[1] = "Extracted"
    /\ output_files = << >>
    /\ temps = JobTemps(1)

\* split_gif has gone through all the segments of a non-empty list of split
\* points on a timeline whose delays are all at least 1
SplitDispatched ==
    /\ op = "split"
    /\ pc = "returned"
    /\ valid_points # << >>
    /\ AllPositive(delays)

\* C30: on a timeline with delays >= 1 and a non-empty list of split points
\* the frame ranges of the segments of split_gif cover every frame: the first
\* starts at frame 0, the last ends at the last frame, and each segment
\* starts no later than the frame after the end of the one before it.
C30_SplitCoversAllFrames ==
    SplitDispatched =>
        LET last_job == Len(valid_points) - 2
        IN  /\ DOMAIN job_state = 0..last_job
            /\ last_job >= 0
            /\ \A k \in 0..last_job : frame_ranges[k] # None
            /\ frame_ranges[0][1] = 0
            /\ frame_ranges[last_job][2] = Len(delays) - 1
            /\ \A k \in 0..(last_job - 1) :
                  frame_ranges[k + 1][1] <= frame_ranges[k][2] + 1

\* three segments cut inside the first frame and at the start of the last one
C30_Witness ==
    /\ SplitDispatched
    /\ Len(delays) = 3
    /\ Len(valid_points) = 4
    /\ valid_points[2] < frame_start_times(delays)[2]
    /\ valid_points[3] = frame_start_times(delays)[3]
    /\ frame_ranges[0] = <<0, 0>>
    /\ frame_ranges[2] = <<2, 2>>

====
